---- MODULE Spec2Model ----
(***************************************************************************)
(* Lazy coefficient streams of sage.data_structures.stream.                *)
(*                                                                         *)
(* A stream is a record; the streams of one expression live in a "world"   *)
(* W = [s |-> operand stream, w |-> operator stream over s].  Indexing a   *)
(* stream can refine its order, fill its cache and index its operand, so   *)
(* every operation takes a world and returns the new world together with   *)
(* the value returned to the caller: Ret(..., ...).             *)
(***************************************************************************)
EXTENDS Integers, Sequences, FiniteSets, TLC

VARIABLES f, a0, s, w, last, inp, ex

vars == <<f, a0, s, w, last, inp, ex>>

(* ------------------------------ bounds -------------------------------- *)

\* largest index at which a coefficient rule is evaluated
MaxIdx == 3
\* largest number of initial coefficients given to Stream_exact
MaxLen == 3
\* largest number of factors an iterator of an infinite operator yields
MaxFactors == 3
\* initial approximate orders of a Stream_function
InitOrders == {0, 1}

Idx == 0..MaxIdx

(* --------------------------- coefficient ring ------------------------- *)

\* the coefficients live in Zmod(RingMod), a ring with zero divisors
RingMod == 6
Ring == 0..(RingMod - 1)
\* values the coefficient rule of a scaled stream takes: 2 is a zero
\* divisor, 3 * 2 = 0
CoefVals == {0, 2}
\* the scalars of Stream_rmul / Stream_lmul: non-zero, non-one;
\* 3 is a zero divisor, 5 = -1 is a unit
Scalars == {3, 5}

Mul(x, y) == (x * y) % RingMod
Add(x, y) == (x + y) % RingMod
IsUnit(x) == \E y \in Ring : Mul(x, y) = 1
Inverse(x) == CHOOSE y \in Ring : Mul(x, y) = 1
Neg(x) == (RingMod - x) % RingMod

(* ------------------------------ records ------------------------------- *)

NoStream == [kind |-> "none"]
NoCall ==
    [op |-> "none", id |-> "none", n |-> 0, ret |-> 0, err |-> "none"]
\* the result of an order() call that runs past the modelled indices
Diverges == "diverges"

\* what a call hands back: the world after it, and the value returned or
\* the error raised
Ret(W, ret) == [W |-> W, ret |-> ret, err |-> "none"]
Fail(W, err) == [W |-> W, ret |-> 0, err |-> err]

EmptyDict == [i \in {} |-> 0]

\* Stream.__init__ + Stream_inexact.__init__: the cache is a dict (sparse)
\* or a list with a generator that has not started (dense)
InexactInit(kind, is_sparse, true_order, ao) ==
    [kind |-> kind, is_sparse |-> is_sparse, true_order |-> true_order,
     lazy |-> FALSE, ao |-> ao,
     cache |-> IF is_sparse THEN EmptyDict ELSE <<>>,
     iter |-> [started |-> FALSE, n |-> 0, dead |-> FALSE]]

\* Stream_function.__init__ with the default true_order=False
StreamFunction(is_sparse, approximate_order) ==
    InexactInit("function", is_sparse, FALSE, approximate_order)

(* ----------------------- Stream_inexact.__getitem__ -------------------- *)

\* ScanSparse without the test of the cached value: every cached index is
\* skipped
RECURSIVE ScanSparseSkipAll(_, _)
ScanSparseSkipAll(cache, ao) ==
    IF ao \in DOMAIN cache
    THEN ScanSparseSkipAll(cache, ao + 1)
    ELSE [ao |-> ao, found |-> FALSE]

\* the loop "while ao in cache: if cache[ao]: true_order = True; break;
\* ao += 1" over a sparse cache
RECURSIVE ScanSparse(_, _)
ScanSparse(cache, ao) ==
    IF ao \in DOMAIN cache
    THEN IF cache[ao] # 0
         THEN [ao |-> ao, found |-> TRUE]
         ELSE ScanSparse(cache, ao + 1)
    ELSE [ao |-> ao, found |-> FALSE]

\* the loop "for val in vals: if val: true_order = True; break; ao += 1"
RECURSIVE ScanDense(_, _)
ScanDense(vals, ao) ==
    IF vals = <<>>
    THEN [ao |-> ao, found |-> FALSE]
    ELSE IF Head(vals) # 0
         THEN [ao |-> ao, found |-> TRUE]
         ELSE ScanDense(Tail(vals), ao + 1)

\* the Python slice lst[start:] (start counted from 0, negative from the end)
SliceFrom(lst, start) ==
    LET len == Len(lst)
        st0 == IF start < 0 THEN start + len ELSE start
        st1 == IF st0 < 0 THEN 0 ELSE IF st0 > len THEN len ELSE st0
    IN  SubSeq(lst, st1 + 1, len)

\* a scan result in the coordinates of a stream shifted by shift
Shifted(sc, shift) == [ao |-> sc.ao + shift, found |-> sc.found]

RECURSIVE GetItem(_, _, _)

\* the lazy attribute _approximate_order of Stream_scalar and Stream_neg:
\* the operand's approximate order at the first access
ScalarApproximateOrder(W, id) == W.s.ao

\* the lazy attribute _approximate_order of Stream_shift
ShiftApproximateOrder(W, id) == W.s.ao + W[id].shift

\* DirichletInvertApproximateOrder without the check of the operand
DirichletInvertApproximateOrderUnchecked(W, id) ==
    Ret([W EXCEPT ![id].true_order = TRUE], 1)

\* the lazy attribute _approximate_order of Stream_dirichlet_invert
DirichletInvertApproximateOrder(W, id) ==
    IF W.s.ao > 1
    THEN Fail(W, "ZeroDivisionError")
    ELSE Ret([W EXCEPT ![id].true_order = TRUE], 1)

\* first access to self._approximate_order: a lazy attribute is computed
\* and stored, unless its computation raises
Force(W, id) ==
    LET Stored(r) ==
            IF r.err # "none"
            THEN r
            ELSE Ret([r.W EXCEPT ![id].ao = r.ret, ![id].lazy = FALSE],
                     r.ret)
    IN  IF ~W[id].lazy
        THEN Ret(W, W[id].ao)
        ELSE CASE W[id].kind = "shift" ->
                    Stored(Ret(W, ShiftApproximateOrder(W, id)))
               [] W[id].kind = "dirichlet_invert" ->
                    Stored(DirichletInvertApproximateOrder(W, id))
               [] OTHER ->
                    Stored(Ret(W, ScalarApproximateOrder(W, id)))

\* the lazy attribute _ainv of Stream_dirichlet_invert: ~self._series[1]
Ainv(W, id) ==
    LET Got(r) ==
            IF r.err # "none"
            THEN r
            ELSE IF IsUnit(r.ret)
                 THEN Ret([r.W EXCEPT ![id].ainv =
                                  [known |-> TRUE, v |-> Inverse(r.ret)]],
                          Inverse(r.ret))
                 ELSE Fail(r.W, "ZeroDivisionError")
    IN  IF W[id].ainv.known
        THEN Ret(W, W[id].ainv.v)
        ELSE Got(GetItem(W, "s", 1))

\* "sum(self[k] * l for k in divisors(n) if (k < n and (l :=
\* self._series[n // k])))", the divisors taken in increasing order
RECURSIVE DirichletSum(_, _, _, _, _)
DirichletSum(W, id, n, k, c) ==
    LET Prod(rk, l) ==
            IF rk.err # "none"
            THEN rk
            ELSE DirichletSum(rk.W, id, n, k + 1, Add(c, Mul(rk.ret, l)))
        Term(rl) ==
            IF rl.err # "none"
            THEN rl
            ELSE IF rl.ret = 0
                 THEN DirichletSum(rl.W, id, n, k + 1, c)
                 ELSE Prod(GetItem(rl.W, id, k), rl.ret)
    IN  IF k >= n
        THEN Ret(W, c)
        ELSE IF n % k # 0
             THEN DirichletSum(W, id, n, k + 1, c)
             ELSE Term(GetItem(W, "s", n \div k))

\* get_coefficient that returns c * self._ainv
DirichletInvertGetCoefficientUnsigned(W, id, n) ==
    LET Scaled(c, ra) ==
            IF ra.err # "none"
            THEN ra
            ELSE Ret(ra.W, Mul(c, ra.ret))
        Summed(rc) ==
            IF rc.err # "none"
            THEN rc
            ELSE Scaled(rc.ret, Ainv(rc.W, id))
    IN  IF n = 1
        THEN Ainv(W, id)
        ELSE Summed(DirichletSum(W, id, n, 1, 0))

\* Stream_dirichlet_invert.get_coefficient
DirichletInvertGetCoefficient(W, id, n) ==
    LET Scaled(c, ra) ==
            IF ra.err # "none"
            THEN ra
            ELSE Ret(ra.W, Mul(Neg(c), ra.ret))
        Summed(rc) ==
            IF rc.err # "none"
            THEN rc
            ELSE Scaled(rc.ret, Ainv(rc.W, id))
    IN  IF n = 1
        THEN Ainv(W, id)
        ELSE Summed(DirichletSum(W, id, n, 1, 0))

\* get_coefficient of the stream kinds: the function of a Stream_function,
\* the operand's coefficient multiplied or negated, the coefficient of the
\* Dirichlet inverse; for a Stream_uninitialized the expression
\* self._target[n] that its iterate_coefficients yields
GetCoefficient(W, id, n) ==
    LET Scaled(r) ==
            IF r.err # "none"
            THEN r
            ELSE CASE W[id].kind = "rmul" ->
                        Ret(r.W, Mul(W[id].scalar, r.ret))
                   [] W[id].kind = "lmul" ->
                        Ret(r.W, Mul(r.ret, W[id].scalar))
                   [] W[id].kind = "neg" -> Ret(r.W, Neg(r.ret))
    IN  CASE W[id].kind = "function" -> Ret(W, f[n])
          [] W[id].kind = "uninitialized" ->
               IF W[id].target = "none"
               THEN Fail(W, "TypeError")
               ELSE GetItem(W, W[id].target, n)
          [] W[id].kind = "dirichlet_invert" ->
               DirichletInvertGetCoefficient(W, id, n)
          [] OTHER -> Scaled(GetItem(W, "s", n))

\* next(self._iter) of the generator iterate_coefficients: the first call
\* reads _approximate_order, every call evaluates get_coefficient(n); an
\* exception ends the generator, and a generator that has ended raises
\* StopIteration
NextCoefficient(W, id) ==
    LET Yield(n, r) ==
            IF r.err # "none"
            THEN Fail([r.W EXCEPT ![id].iter =
                              [started |-> TRUE, n |-> n, dead |-> TRUE]],
                      r.err)
            ELSE Ret([r.W EXCEPT ![id].iter =
                             [started |-> TRUE, n |-> n + 1,
                              dead |-> FALSE]],
                     r.ret)
        At(n) == Yield(n, GetCoefficient(W, id, n))
    IN  IF W[id].iter.dead
        THEN Fail(W, "StopIteration")
        ELSE At(IF W[id].iter.started THEN W[id].iter.n ELSE W[id].ao)

\* DenseSeek that appends the zeros it passes to the cache too
RECURSIVE DenseSeekKeepZeros(_, _, _)
DenseSeekKeepZeros(W, id, n) ==
    LET Step(r) ==
            IF r.err # "none"
            THEN r
            ELSE IF r.ret # 0
                 THEN DenseSeekKeepZeros(
                          [r.W EXCEPT ![id].true_order = TRUE,
                                      ![id].cache = Append(@, r.ret)],
                          id, n)
                 ELSE DenseSeekKeepZeros(
                          [r.W EXCEPT ![id].ao = @ + 1,
                                      ![id].cache = Append(@, r.ret)],
                          id, n)
    IN  IF ~W[id].true_order /\ n >= W[id].ao
        THEN Step(NextCoefficient(W, id))
        ELSE Ret(W, 0)

\* dense: "while not self._true_order and n >= self._approximate_order"
RECURSIVE DenseSeek(_, _, _)
DenseSeek(W, id, n) ==
    LET Step(r) ==
            IF r.err # "none"
            THEN r
            ELSE IF r.ret # 0
                 THEN DenseSeek([r.W EXCEPT ![id].true_order = TRUE,
                                            ![id].cache = Append(@, r.ret)],
                                id, n)
                 ELSE DenseSeek([r.W EXCEPT ![id].ao = @ + 1], id, n)
    IN  IF ~W[id].true_order /\ n >= W[id].ao
        THEN Step(NextCoefficient(W, id))
        ELSE Ret(W, 0)

\* DenseExtend that puts the new element at the front of the list
RECURSIVE DenseExtendFront(_, _, _)
DenseExtendFront(W, id, k) ==
    LET Step(r) ==
            IF r.err = "StopIteration"
            THEN Fail(r.W, "RuntimeError")
            ELSE IF r.err # "none"
                 THEN r
                 ELSE DenseExtendFront([r.W EXCEPT ![id].cache =
                                               <<r.ret>> \o @],
                                       id, k - 1)
    IN  IF k <= 0
        THEN Ret(W, 0)
        ELSE Step(NextCoefficient(W, id))

\* dense: self._cache.extend(next(self._iter) for _ in range(k)); a
\* StopIteration inside the generator expression becomes a RuntimeError
RECURSIVE DenseExtend(_, _, _)
DenseExtend(W, id, k) ==
    LET Step(r) ==
            IF r.err = "StopIteration"
            THEN Fail(r.W, "RuntimeError")
            ELSE IF r.err # "none"
                 THEN r
                 ELSE DenseExtend([r.W EXCEPT ![id].cache =
                                          Append(@, r.ret)],
                                  id, k - 1)
    IN  IF k <= 0
        THEN Ret(W, 0)
        ELSE Step(NextCoefficient(W, id))

\* the sparse branch of Stream_inexact.__getitem__, for n >= approximate order
InexactGetItemSparse(W, id, n) ==
    LET Moved(r, sc) ==
            Ret([r.W EXCEPT ![id].true_order = sc.found, ![id].ao = sc.ao],
                r.ret)
        Stored(r) == [r.W EXCEPT ![id].cache = (n :> r.ret) @@ @]
        Miss(r) ==
            IF r.err # "none"
            THEN r
            ELSE IF r.W[id].true_order \/ n > r.W[id].ao
                 THEN Ret(Stored(r), r.ret)
                 ELSE IF r.ret # 0
                      THEN Ret([Stored(r) EXCEPT ![id].true_order = TRUE],
                               r.ret)
                      ELSE Moved(r, ScanSparse(r.W[id].cache,
                                               r.W[id].ao + 1))
    IN  IF n \in DOMAIN W[id].cache
        THEN Ret(W, W[id].cache[n])
        ELSE Miss(GetCoefficient(W, id, n))

\* InexactGetItemDense returning the last element of the cache
InexactGetItemDenseLast(W, id, n) ==
    LET Extended(r2) ==
            IF r2.err # "none"
            THEN r2
            ELSE Ret(r2.W, r2.W[id].cache[Len(r2.W[id].cache)])
        Sought(r1) ==
            IF r1.err # "none"
            THEN r1
            ELSE IF r1.W[id].true_order
                 THEN Extended(DenseExtend(r1.W, id,
                                   (n - r1.W[id].ao)
                                     - Len(r1.W[id].cache) + 1))
                 ELSE Ret(r1.W, 0)
    IN  Sought(DenseSeek(W, id, n))

\* the dense branch of Stream_inexact.__getitem__
InexactGetItemDense(W, id, n) ==
    LET Extended(r2) ==
            IF r2.err # "none"
            THEN r2
            ELSE Ret(r2.W, r2.W[id].cache[(n - r2.W[id].ao) + 1])
        Sought(r1) ==
            IF r1.err # "none"
            THEN r1
            ELSE IF r1.W[id].true_order
                 THEN Extended(DenseExtend(r1.W, id,
                                   (n - r1.W[id].ao)
                                     - Len(r1.W[id].cache) + 1))
                 ELSE Ret(r1.W, 0)
    IN  Sought(DenseSeek(W, id, n))

\* Stream_inexact.__getitem__
InexactGetItem(W, id, n) ==
    LET Forced(r0) ==
            IF r0.err # "none"
            THEN r0
            ELSE IF n < r0.ret
                 THEN Ret(r0.W, 0)
                 ELSE IF r0.W[id].is_sparse
                      THEN InexactGetItemSparse(r0.W, id, n)
                      ELSE InexactGetItemDense(r0.W, id, n)
    IN  Forced(Force(W, id))

(* --------------------------- unary operators --------------------------- *)

\* Stream_scalar.__init__ (Stream_rmul, Stream_lmul): the flag _true_order
\* is the operand's flag at construction
StreamScalar(kind, series, scalar, is_sparse) ==
    [InexactInit(kind, is_sparse, series.true_order, 0)
       EXCEPT !.lazy = TRUE] @@ [scalar |-> scalar]

\* Stream_neg.__init__
StreamNeg(series, is_sparse) ==
    [InexactInit("neg", is_sparse, series.true_order, 0)
       EXCEPT !.lazy = TRUE]

\* Stream_uninitialized.__init__: dense, no target yet
StreamUninitialized(approximate_order) ==
    InexactInit("uninitialized", FALSE, FALSE, approximate_order)
        @@ [target |-> "none"]

\* Stream_dirichlet_invert.__init__
StreamDirichletInvert(series, is_sparse) ==
    [InexactInit("dirichlet_invert", is_sparse, FALSE, 0)
       EXCEPT !.lazy = TRUE] @@ [ainv |-> [known |-> FALSE, v |-> 0]]

\* Stream_shift.__init__: no cache of its own
StreamShift(series, shift) ==
    [kind |-> "shift", true_order |-> series.true_order, lazy |-> TRUE,
     ao |-> 0, shift |-> shift]

\* Stream_shift.__getitem__
ShiftGetItem(W, id, n) == GetItem(W, "s", n - W[id].shift)

\* self._cache of a Stream_truncated: the operand's cache object while it
\* is shared, else the list of its own
TruncatedCache(W, id) ==
    IF W[id].shares THEN W.s.cache ELSE W[id].cache

\* Stream_truncated.__init__: shares the operand's cache, looks for its own
\* order among the values already computed.  The field cache is only
\* read when shares is FALSE.
StreamTruncated(series, shift, minimal_valuation) ==
    LET Made(sc) ==
            [kind |-> "truncated", is_sparse |-> series.is_sparse,
             true_order |-> sc.found, lazy |-> FALSE, ao |-> sc.ao,
             shift |-> shift, shares |-> TRUE, cache |-> <<>>,
             iter |-> [started |-> FALSE, n |-> 0, dead |-> FALSE]]
    IN  IF series.is_sparse
        THEN Made(Shifted(ScanSparse(series.cache,
                                     minimal_valuation - shift), shift))
        ELSE Made(ScanDense(SliceFrom(series.cache,
                                minimal_valuation - (series.ao + shift)),
                            minimal_valuation))

\* TruncatedGetItem whose sparse scan starts at the own approximate order,
\* not at the operand's index of it
TruncatedGetItemNoUnshift(W, id, n) ==
    LET Refined(r, sc) ==
            Ret([r.W EXCEPT ![id].ao = sc.ao, ![id].true_order = sc.found],
                r.ret)
        Got(r) ==
            IF W[id].true_order
            THEN r
            ELSE IF W[id].is_sparse
                 THEN Refined(r, Shifted(ScanSparse(TruncatedCache(r.W, id),
                                                    W[id].ao),
                                         W[id].shift))
                 ELSE Refined(r, ScanDense(
                          SliceFrom(TruncatedCache(r.W, id),
                                    W[id].ao - (r.W.s.ao + W[id].shift)),
                          W[id].ao))
    IN  IF n < W[id].ao
        THEN Ret(W, 0)
        ELSE Got(GetItem(W, "s", n - W[id].shift))

\* Stream_truncated.__getitem__
TruncatedGetItem(W, id, n) ==
    LET Refined(r, sc) ==
            Ret([r.W EXCEPT ![id].ao = sc.ao, ![id].true_order = sc.found],
                r.ret)
        Got(r) ==
            IF W[id].true_order
            THEN r
            ELSE IF W[id].is_sparse
                 THEN Refined(r, Shifted(ScanSparse(TruncatedCache(r.W, id),
                                             W[id].ao - W[id].shift),
                                         W[id].shift))
                 ELSE Refined(r, ScanDense(
                          SliceFrom(TruncatedCache(r.W, id),
                                    W[id].ao - (r.W.s.ao + W[id].shift)),
                          W[id].ao))
    IN  IF n < W[id].ao
        THEN Ret(W, 0)
        ELSE Got(GetItem(W, "s", n - W[id].shift))

\* self[n], dispatched on the class of the stream
GetItem(W, id, n) ==
    CASE W[id].kind = "truncated" -> TruncatedGetItem(W, id, n)
      [] W[id].kind = "shift" -> ShiftGetItem(W, id, n)
      [] OTHER -> InexactGetItem(W, id, n)

(* ------------------------- save and restore --------------------------- *)

\* a generator that has not started
NewIter == [started |-> FALSE, n |-> 0, dead |-> FALSE]

\* Stream_inexact.__getstate__: the attributes of the stream, without
\* _iter and _cache if the stream is dense
GetState(st) ==
    IF st.is_sparse
    THEN st
    ELSE [x \in DOMAIN st \ {"iter", "cache"} |-> st[x]]

\* SetState that keeps the list of the saved stream as the cache
SetStateKeepCache(d, old) ==
    IF d.is_sparse
    THEN d
    ELSE [x \in DOMAIN d \cup {"iter", "cache"} |->
             CASE x = "iter" -> NewIter
               [] x = "cache" -> old.cache
               [] x = "shares" -> FALSE
               [] OTHER -> d[x]]

\* Stream_inexact.__setstate__: a dense stream gets a new generator and a
\* new empty list as its cache, which no other stream holds
SetState(d, old) ==
    IF d.is_sparse
    THEN d
    ELSE [x \in DOMAIN d \cup {"iter", "cache"} |->
             CASE x = "iter" -> NewIter
               [] x = "cache" -> <<>>
               [] x = "shares" -> FALSE
               [] OTHER -> d[x]]

(* -------------------------------- order() ------------------------------ *)

\* the last index of a stream whose coefficient the modelled rule determines
LastIndex(W, id) ==
    IF W[id].kind \in {"truncated", "shift"}
    THEN MaxIdx + W[id].shift
    ELSE MaxIdx

\* Stream_inexact.order(): "while not self[n]: n += 1".  On an all-zero
\* stream the loop never returns: the search is cut at the last index
RECURSIVE OrderLoop(_, _, _)
OrderLoop(W, id, n) ==
    LET Got(r) ==
            IF r.err # "none"
            THEN r
            ELSE IF r.ret # 0
                 THEN Ret(r.W, n)
                 ELSE OrderLoop(r.W, id, n + 1)
    IN  IF n > LastIndex(W, id)
        THEN Fail(W, Diverges)
        ELSE Got(GetItem(W, id, n))

\* InexactOrder starting its search one index late
InexactOrderLate(W, id) ==
    LET Forced(r0) ==
            IF r0.err # "none"
            THEN r0
            ELSE IF r0.W[id].true_order
                 THEN Ret(r0.W, r0.ret)
                 ELSE OrderLoop(r0.W, id, r0.ret + 1)
    IN  Forced(Force(W, id))

\* Stream_inexact.order()
InexactOrder(W, id) ==
    LET Forced(r0) ==
            IF r0.err # "none"
            THEN r0
            ELSE IF r0.W[id].true_order
                 THEN Ret(r0.W, r0.ret)
                 ELSE OrderLoop(r0.W, id, r0.ret)
    IN  Forced(Force(W, id))

\* the sparse loop of Stream_truncated.order()
RECURSIVE TruncatedOrderLoop(_, _, _)
TruncatedOrderLoop(W, id, n) ==
    LET Got(r) ==
            IF r.err # "none"
            THEN r
            ELSE IF r.ret # 0
                 THEN Ret(r.W, n)
                 ELSE TruncatedOrderLoop(r.W, id, n + 1)
    IN  IF n > LastIndex(W, id)
        THEN Fail(W, Diverges)
        ELSE IF (n - W[id].shift) \in DOMAIN W.s.cache
             THEN IF W.s.cache[n - W[id].shift] # 0
                  THEN Ret([W EXCEPT ![id].ao = n, ![id].true_order = TRUE],
                           n)
                  ELSE TruncatedOrderLoop(W, id, n + 1)
             ELSE Got(GetItem(W, id, n))

\* Stream_truncated.order()
TruncatedOrder(W, id) ==
    IF W[id].true_order
    THEN Ret(W, W[id].ao)
    ELSE IF W[id].is_sparse
         THEN TruncatedOrderLoop(W, id, W[id].ao)
         ELSE InexactOrder(W, id)

\* Stream_shift.order()
ShiftOrder(W, id) ==
    LET Got(r) ==
            IF r.err # "none"
            THEN r
            ELSE Ret(r.W, r.ret + W[id].shift)
    IN  Got(InexactOrder(W, "s"))

\* self.order(), dispatched on the class of the stream
Order(W, id) ==
    CASE W[id].kind = "truncated" -> TruncatedOrder(W, id)
      [] W[id].kind = "shift" -> ShiftOrder(W, id)
      [] OTHER -> InexactOrder(W, id)

(* ------------------- a Stream_function and its wrapper ----------------- *)

\* shifts and minimal valuations of a Stream_truncated
TruncShifts == {-2, -1}
MinValuations == {0, 1}

World == [s |-> s, w |-> w]

Call(op, id, n, r) ==
    [op |-> op, id |-> id, n |-> n, ret |-> r.ret, err |-> r.err]

\* the state after a call that returned r
Returned(op, id, n, r) ==
    /\ r.err = "none"
    /\ s' = r.W.s
    /\ w' = r.W.w
    /\ last' = Call(op, id, n, r)
    /\ UNCHANGED <<f, a0, inp, ex>>

\* s[n]
Index(n) == Returned("getitem", "s", n, GetItem(World, "s", n))

\* s.order()
OrderOf == Returned("order", "s", 0, Order(World, "s"))

\* w = Stream_truncated(s, shift, minimal_valuation)
Truncate(shift, minimal_valuation) ==
    /\ w = NoStream
    /\ w' = StreamTruncated(s, shift, minimal_valuation)
    /\ last' = Call("init", "w", 0, Ret(World, 0))
    /\ inp' = Call("init", "w", minimal_valuation, Ret(World, 0))
    /\ UNCHANGED <<f, a0, s, ex>>

\* w[n]
IndexWrapper(n) ==
    /\ w # NoStream
    /\ n <= LastIndex(World, "w")
    /\ Returned("getitem", "w", n, GetItem(World, "w", n))

\* w.order()
OrderOfWrapper ==
    /\ w # NoStream
    /\ Returned("order", "w", 0, Order(World, "w"))

\* loads(dumps(...)) of the wrapper together with its operand, or of the
\* stream alone when there is no wrapper: the restored copies replace the
\* originals
SaveRestore ==
    /\ last.op # "restore"
    /\ s' = SetState(GetState(s), s)
    /\ w' = IF w = NoStream THEN w ELSE SetState(GetState(w), w)
    /\ last' = Call("restore", IF w = NoStream THEN "s" ELSE "w", 0,
                    Ret(World, 0))
    /\ UNCHANGED <<f, a0, inp, ex>>

\* indices requested of a wrapper
WrapIdx == (0 - 2)..(MaxIdx + 1)

InitInexact ==
    /\ f \in [Idx -> {0, 1}]
    /\ a0 \in InitOrders
    /\ \E is_sparse \in BOOLEAN : s = StreamFunction(is_sparse, a0)
    /\ w = NoStream
    /\ last = NoCall
    /\ inp = NoCall
    /\ ex = NoStream

NextInexact ==
    \/ \E n \in Idx : Index(n)
    \/ OrderOf
    \/ \E k \in TruncShifts, m \in MinValuations : Truncate(k, m)
    \/ \E n \in WrapIdx : IndexWrapper(n)
    \/ OrderOfWrapper
    \/ SaveRestore

SpecInexact == InitInexact /\ [][NextInexact]_vars

(* ---------- a Stream_function and a scalar multiple, negative or shift -- *)

\* shifts of a Stream_shift
Shifts == {-1, 1}

\* w = Stream_rmul(s, scalar, is_sparse) or Stream_lmul(s, scalar, is_sparse);
\* a series ring builds all its streams with the one flag is_sparse
Scale(kind, scalar) ==
    /\ w = NoStream
    /\ w' = StreamScalar(kind, s, scalar, s.is_sparse)
    /\ last' = Call("init", "w", 0, Ret(World, 0))
    /\ UNCHANGED <<f, a0, s, inp, ex>>

\* w = Stream_neg(s, is_sparse)
Negate ==
    /\ w = NoStream
    /\ w' = StreamNeg(s, s.is_sparse)
    /\ last' = Call("init", "w", 0, Ret(World, 0))
    /\ UNCHANGED <<f, a0, s, inp, ex>>

\* w = Stream_shift(s, shift)
ShiftBy(shift) ==
    /\ w = NoStream
    /\ w' = StreamShift(s, shift)
    /\ last' = Call("init", "w", 0, Ret(World, 0))
    /\ UNCHANGED <<f, a0, s, inp, ex>>

InitScalar ==
    /\ f \in [Idx -> CoefVals]
    /\ a0 \in InitOrders
    /\ \E is_sparse \in BOOLEAN : s = StreamFunction(is_sparse, a0)
    /\ w = NoStream
    /\ last = NoCall
    /\ inp = NoCall
    /\ ex = NoStream

NextScalar ==
    \/ \E n \in Idx : Index(n)
    \/ OrderOf
    \/ \E kind \in {"rmul", "lmul"}, c \in Scalars : Scale(kind, c)
    \/ Negate
    \/ \E k \in Shifts : ShiftBy(k)
    \/ \E n \in WrapIdx : IndexWrapper(n)
    \/ OrderOfWrapper

SpecScalar == InitScalar /\ [][NextScalar]_vars

(* -------- a Stream_function under a placeholder or a Dirichlet inverse -- *)

\* values of the function: zero and a unit of the ring
UnitVals == {0, 5}

\* the state after a call that returned or raised
Completed(op, id, n, r) ==
    /\ r.err # Diverges
    /\ s' = r.W.s
    /\ w' = r.W.w
    /\ last' = Call(op, id, n, r)
    /\ UNCHANGED <<f, a0, inp, ex>>

\* w = Stream_uninitialized(approximate_order)
Placeholder(approximate_order) ==
    /\ w = NoStream
    /\ w' = StreamUninitialized(approximate_order)
    /\ last' = Call("init", "w", 0, Ret(World, 0))
    /\ UNCHANGED <<f, a0, s, inp, ex>>

\* w._target = s
Bind ==
    /\ w.kind = "uninitialized"
    /\ w.target = "none"
    /\ w' = [w EXCEPT !.target = "s"]
    /\ last' = Call("bind", "w", 0, Ret(World, 0))
    /\ UNCHANGED <<f, a0, s, inp, ex>>

\* w = Stream_dirichlet_invert(s, is_sparse)
DirichletInvert ==
    /\ w = NoStream
    /\ w' = StreamDirichletInvert(s, s.is_sparse)
    /\ last' = Call("init", "w", 0, Ret(World, 0))
    /\ UNCHANGED <<f, a0, s, inp, ex>>

\* w[n], returning or raising
IndexRaising(n) ==
    /\ w # NoStream
    /\ Completed("getitem", "w", n, GetItem(World, "w", n))

InitIndexing ==
    /\ f \in [Idx -> UnitVals]
    /\ a0 \in InitOrders
    /\ \E is_sparse \in BOOLEAN : s = StreamFunction(is_sparse, a0)
    /\ w = NoStream
    /\ last = NoCall
    /\ inp = NoCall
    /\ ex = NoStream

NextIndexing ==
    \/ \E n \in Idx : Index(n)
    \/ \E approximate_order \in InitOrders : Placeholder(approximate_order)
    \/ Bind
    \/ DirichletInvert
    \/ \E n \in (0 - 1)..MaxIdx : IndexRaising(n)

SpecIndexing == InitIndexing /\ [][NextIndexing]_vars

\* values of the function of the operand of a Dirichlet inverse: zero, one
\* and another unit of the ring
DirichletVals == {0, 1, 5}

InitDirichlet ==
    /\ f \in [Idx -> DirichletVals]
    /\ a0 \in InitOrders
    /\ \E is_sparse \in BOOLEAN : s = StreamFunction(is_sparse, a0)
    /\ w = NoStream
    /\ last = NoCall
    /\ inp = NoCall
    /\ ex = NoStream

NextDirichlet ==
    \/ \E n \in Idx : Index(n)
    \/ DirichletInvert
    \/ \E n \in (0 - 1)..MaxIdx : IndexRaising(n)

SpecDirichlet == InitDirichlet /\ [][NextDirichlet]_vars

(* ------------------------------ Stream_exact --------------------------- *)

\* an optional argument: None, or a value
None == [given |-> FALSE, v |-> 0]
Some(v) == [given |-> TRUE, v |-> v]

\* a construction that raised
Raised(err) == [kind |-> "error", err |-> err]

\* position of the first nonzero entry of a list, 0 if there is none
RECURSIVE FirstNonzero(_, _)
FirstNonzero(lst, i) ==
    IF i > Len(lst)
    THEN 0
    ELSE IF lst[i] # 0 THEN i ELSE FirstNonzero(lst, i + 1)

\* StripConstant that leaves the list as it is
StripConstantNot(lst, degree, constant) ==
    [ic |-> lst, degree |-> degree]

\* "for w in reversed(initial_coefficients): if not (w == self._constant):
\* break; initial_coefficients.pop(); self._degree -= 1"
RECURSIVE StripConstant(_, _, _)
StripConstant(lst, degree, constant) ==
    IF lst # <<>> /\ lst[Len(lst)] = constant
    THEN StripConstant(SubSeq(lst, 1, Len(lst) - 1), degree - 1, constant)
    ELSE [ic |-> lst, degree |-> degree]

\* StripZeros that leaves the list as it is
StripZerosNot(lst) == lst

\* "for w in reversed(initial_coefficients): if w: break;
\* initial_coefficients.pop()"
RECURSIVE StripZeros(_)
StripZeros(lst) ==
    IF lst # <<>> /\ lst[Len(lst)] = 0
    THEN StripZeros(SubSeq(lst, 1, Len(lst) - 1))
    ELSE lst

\* the assertion of Stream_exact.__init__ without the constant
IsNonzeroListOnly(initial_coefficients, constant) ==
    initial_coefficients # <<>>

\* "assert self._initial_coefficients or self._constant"
IsNonzero(initial_coefficients, constant) ==
    initial_coefficients # <<>> \/ constant # 0

\* Stream_exact.__init__
StreamExact(initial_coefficients, constant, degree, order) ==
    LET c == IF constant.given THEN constant.v ELSE 0
        o == IF order.given THEN order.v ELSE 0
        len == Len(initial_coefficients)
        deg == IF ~degree.given \/ (c = 0 /\ degree.v > o + len)
               THEN o + len
               ELSE degree.v
        Made(ic, d, ao) ==
            IF IsNonzero(ic, c)
            THEN [kind |-> "exact", initial_coefficients |-> ic,
                  constant |-> c, degree |-> d, ao |-> ao,
                  true_order |-> TRUE]
            ELSE Raised("AssertionError")
        Stripped(st, ao) == Made(StripZeros(st.ic), st.degree, ao)
        From(i) ==
            IF i = 0
            THEN Made(<<>>, deg, deg)
            ELSE IF (o + (i - 1)) + (len - (i - 1)) = deg
                 THEN Stripped(StripConstant(
                                   SubSeq(initial_coefficients, i, len),
                                   deg, c),
                               o + (i - 1))
                 ELSE Stripped([ic |-> SubSeq(initial_coefficients, i, len),
                                degree |-> deg],
                               o + (i - 1))
    IN  IF ~(o + len <= deg)
        THEN Raised("AssertionError")
        ELSE From(FirstNonzero(initial_coefficients, 1))

\* ExactGetItem with the constant tail starting one index late
ExactGetItemLate(st, n) ==
    IF n > st.degree
    THEN st.constant
    ELSE IF n - st.ao < 0 \/ n - st.ao >= Len(st.initial_coefficients)
         THEN 0
         ELSE st.initial_coefficients[(n - st.ao) + 1]

\* Stream_exact.__getitem__
ExactGetItem(st, n) ==
    IF n >= st.degree
    THEN st.constant
    ELSE IF n - st.ao < 0 \/ n - st.ao >= Len(st.initial_coefficients)
         THEN 0
         ELSE st.initial_coefficients[(n - st.ao) + 1]

\* Stream_exact.order
ExactOrder(st) == st.ao

\* Stream_exact.__eq__
ExactEq(st, other) ==
    /\ other.kind = st.kind
    /\ st.degree = other.degree
    /\ st.ao = other.ao
    /\ st.initial_coefficients = other.initial_coefficients
    /\ st.constant = other.constant

\* [s[i] for i in range(lo, hi)]
RECURSIVE Coefficients(_, _, _)
Coefficients(st, lo, hi) ==
    IF lo >= hi
    THEN <<>>
    ELSE <<ExactGetItem(st, lo)>> \o Coefficients(st, lo + 1, hi)

\* lists of at most n coefficients
RECURSIVE Lists(_)
Lists(n) ==
    IF n = 0
    THEN {<<>>}
    ELSE Lists(n - 1)
           \cup {Append(l, v) : l \in {k \in Lists(n - 1) : Len(k) = n - 1},
                                v \in {0, 1, 2}}

\* the arguments of a construction: the degree is given relative to
\* order + len(initial_coefficients)
Arguments(lst, constant, reldegree, order) ==
    [initial_coefficients |-> lst, constant |-> constant,
     degree |-> IF reldegree.given
                THEN Some((IF order.given THEN order.v ELSE 0)
                            + Len(lst) + reldegree.v)
                ELSE None,
     order |-> order]

Inputs ==
    {Arguments(lst, c, d, o) :
        lst \in Lists(MaxLen), c \in {None, Some(1)},
        d \in {None, Some(0 - 1), Some(0), Some(1)}, o \in {None, Some(0 - 1)}}

NoInput == Arguments(<<>>, None, None, None)

Construct(in) ==
    StreamExact(in.initial_coefficients, in.constant, in.degree, in.order)

\* a = Stream_exact(...)
ConstructA ==
    /\ ex.a = NoStream
    /\ \E in \in Inputs :
          /\ ex' = [ex EXCEPT !.a = Construct(in)]
          /\ inp' = [inp EXCEPT !.a = in]
    /\ last' = Call("init", "a", 0, Ret(World, 0))
    /\ UNCHANGED <<f, a0, s, w>>

\* b = Stream_exact(...), a second stream to compare a with
ConstructB ==
    /\ ex.a.kind = "exact"
    /\ ex.b = NoStream
    /\ last.op = "init"
    /\ \E in \in Inputs :
          /\ ex' = [ex EXCEPT !.b = Construct(in)]
          /\ inp' = [inp EXCEPT !.b = in]
    /\ last' = Call("init", "b", 0, Ret(World, 0))
    /\ UNCHANGED <<f, a0, s, w>>

\* b = Stream_exact([a[i] for i in range(order-2, degree+5)],
\*                  constant=a._constant, order=order-2)
Rebuild ==
    /\ ex.a.kind = "exact"
    /\ ex.b = NoStream
    /\ LET in == [initial_coefficients |->
                      Coefficients(ex.a, ExactOrder(ex.a) - 2,
                                   ex.a.degree + 5),
                  constant |-> Some(ex.a.constant),
                  degree |-> None,
                  order |-> Some(ExactOrder(ex.a) - 2)]
       IN  /\ ex' = [ex EXCEPT !.b = Construct(in)]
           /\ inp' = [inp EXCEPT !.b = in]
    /\ last' = Call("rebuild", "b", 0, Ret(World, 0))
    /\ UNCHANGED <<f, a0, s, w>>

\* indices asked of an exact stream
ExactIdx == (0 - 3)..(MaxLen + 2)

\* a[n]
IndexExact(n) ==
    /\ ex.a.kind = "exact"
    /\ ex.b = NoStream
    /\ last.op = "init"
    /\ last' = Call("getitem", "a", n, Ret(World, ExactGetItem(ex.a, n)))
    /\ UNCHANGED <<f, a0, s, w, inp, ex>>

\* a.order()
OrderOfExact ==
    /\ ex.a.kind = "exact"
    /\ ex.b = NoStream
    /\ last.op = "init"
    /\ last' = Call("order", "a", 0, Ret(World, ExactOrder(ex.a)))
    /\ UNCHANGED <<f, a0, s, w, inp, ex>>

InitExact ==
    /\ f = [i \in Idx |-> 0]
    /\ a0 = 0
    /\ s = NoStream
    /\ w = NoStream
    /\ last = NoCall
    /\ inp = [a |-> NoInput, b |-> NoInput]
    /\ ex = [a |-> NoStream, b |-> NoStream]

NextExact ==
    \/ ConstructA
    \/ ConstructB
    \/ Rebuild
    \/ \E n \in ExactIdx : IndexExact(n)
    \/ OrderOfExact

SpecExact == InitExact /\ [][NextExact]_vars

(* --------------------- Stream_infinite_operator ------------------------ *)

\* infinity and -infinity, beyond every index
Infinity == 99
MinusInfinity == 0 - Infinity

\* indices at which the series of a factor and of the running result are
\* kept; the running result is exact up to MaxRequest
OpIdx == (0 - MaxFactors)..3
MaxRequest == 1

\* the approximate orders given to the factors
FactorOrders == {0 - 1, 0, 1}

\* a factor that is a Stream_zero
ZeroFactor == [kind |-> "zero"]

\* a factor: a Stream_function on which nothing was called, whose function
\* is c0 at the approximate order v, c1 at v + 1 and zero elsewhere
Term(v, c0, c1) ==
    [kind |-> "term", ao |-> v, true_order |-> FALSE,
     coef |-> [n \in OpIdx |->
                  IF n = v THEN c0 ELSE IF n = v + 1 THEN c1 ELSE 0]]

Factors ==
    {ZeroFactor}
        \cup {Term(v, c[1], c[2]) :
                 v \in FactorOrders, c \in {<<1, 0>>, <<0, 1>>}}

\* the iterators: the lists of at most n factors
RECURSIVE Iterators(_)
Iterators(n) ==
    IF n = 0
    THEN {<<>>}
    ELSE Iterators(n - 1)
           \cup {Append(l, p) :
                    l \in {k \in Iterators(n - 1) : Len(k) = n - 1},
                    p \in Factors}

\* coeff_stream[coeff_stream._approximate_order] of a factor, by
\* Stream_inexact.__getitem__ with n = _approximate_order and no cached
\* value at or above n: a nonzero value makes the order true, a zero moves
\* the approximate order up by one
FactorGetItem(p, n) ==
    IF p.coef[n] # 0
    THEN [p |-> [p EXCEPT !.true_order = TRUE], ret |-> p.coef[n]]
    ELSE IF p.true_order
         THEN [p |-> p, ret |-> 0]
         ELSE [p |-> [p EXCEPT !.ao = @ + 1], ret |-> 0]

\* the series 1
One == [n \in OpIdx |-> IF n = 0 THEN 1 ELSE 0]

\* the sum of two series
SeriesAdd(x, y) == [n \in OpIdx |-> Add(x[n], y[n])]

RECURSIVE CauchySum(_, _, _, _)
CauchySum(x, y, n, k) ==
    IF k \notin OpIdx
    THEN 0
    ELSE Add(IF (n - k) \in OpIdx THEN Mul(x[k], y[n - k]) ELSE 0,
             CauchySum(x, y, n, k + 1))

\* the Cauchy product of two series, cut to OpIdx
SeriesMul(x, y) == [n \in OpIdx |-> CauchySum(x, y, n, 0 - MaxFactors)]

\* Stream_infinite_sum.initial, Stream_infinite_product.initial
Initial(kind, obj) ==
    IF kind = "infinite_sum" THEN obj ELSE SeriesAdd(obj, One)

\* ApplyOperator of the product that adds the factor, as the sum does
ApplyOperatorAdd(kind, cur, next_obj) == SeriesAdd(cur, next_obj)

\* Stream_infinite_sum.apply_operator, Stream_infinite_product.apply_operator
ApplyOperator(kind, cur, next_obj) ==
    IF kind = "infinite_sum"
    THEN SeriesAdd(cur, next_obj)
    ELSE SeriesAdd(cur, SeriesMul(cur, next_obj))

\* Stream_infinite_operator.__init__
StreamInfiniteOperator(kind) ==
    [kind |-> kind, op_iter |-> 0, cur_none |-> TRUE, cur |-> One,
     cur_order |-> MinusInfinity]

\* the result of an operation on an infinite operator op over the factors fs
OpRet(op, fs, ret) == [op |-> op, fs |-> fs, ret |-> ret, err |-> "none"]
OpFail(op, fs, err) == [op |-> op, fs |-> fs, ret |-> 0, err |-> err]

\* AdvanceCheck that stores the order found in _cur_order before it raises
RECURSIVE AdvanceCheckStored(_, _, _, _)
AdvanceCheckStored(op, fs, k, order) ==
    LET Got(g) ==
            IF g.ret # 0
            THEN OpFail([op EXCEPT !.cur_order = fs[k].ao],
                        [fs EXCEPT ![k] = g.p], "ValueError")
            ELSE AdvanceCheckStored(op, [fs EXCEPT ![k] = g.p], k, order)
    IN  IF fs[k].ao < order
        THEN Got(FactorGetItem(fs[k], fs[k].ao))
        ELSE OpRet(op, fs, 0)

\* AdvanceCheck that accepts every factor
AdvanceCheckNone(op, fs, k, order) == OpRet(op, fs, 0)

\* "while coeff_stream._approximate_order < order: if
\* coeff_stream[coeff_stream._approximate_order]: raise ValueError"
RECURSIVE AdvanceCheck(_, _, _, _)
AdvanceCheck(op, fs, k, order) ==
    LET Got(g) ==
            IF g.ret # 0
            THEN OpFail(op, [fs EXCEPT ![k] = g.p], "ValueError")
            ELSE AdvanceCheck(op, [fs EXCEPT ![k] = g.p], k, order)
    IN  IF fs[k].ao < order
        THEN Got(FactorGetItem(fs[k], fs[k].ao))
        ELSE OpRet(op, fs, 0)

\* the loop "while order == self._cur_order" of _advance
RECURSIVE AdvanceLoop(_, _, _)
AdvanceLoop(op, fs, order) ==
    LET Bumped(o, g, fs1, k) ==
            AdvanceLoop(o, [fs1 EXCEPT ![k] = g.p],
                        IF g.ret = 0 THEN order + 1 ELSE order)
        Applied(o, fs1, k) ==
            IF fs1[k].ao = o.cur_order
            THEN Bumped(o, FactorGetItem(fs1[k], fs1[k].ao), fs1, k)
            ELSE AdvanceLoop(o, fs1, fs1[k].ao)
        Checked(c, k) ==
            IF c.err # "none"
            THEN c
            ELSE Applied([c.op EXCEPT !.cur =
                                 ApplyOperator(op.kind, @, c.fs[k].coef)],
                         c.fs, k)
        Pulled(o, k) ==
            IF fs[k].kind = "zero"
            THEN AdvanceLoop(o, fs, order)
            ELSE Checked(AdvanceCheck(o, fs, k, order), k)
    IN  IF order # op.cur_order
        THEN OpRet([op EXCEPT !.cur_order = order], fs, 0)
        ELSE IF op.op_iter >= Len(fs)
             THEN OpRet([op EXCEPT !.cur_order = Infinity], fs, 0)
             ELSE Pulled([op EXCEPT !.op_iter = @ + 1], op.op_iter + 1)

\* Stream_infinite_operator._advance
RECURSIVE Advance(_, _)
Advance(op, fs) ==
    LET Started(o) == AdvanceLoop(o, fs, o.cur_order)
        Pulled(o, k) ==
            IF fs[k].kind = "zero"
            THEN Advance(o, fs)
            ELSE Started([o EXCEPT !.cur_none = FALSE,
                                   !.cur = Initial(op.kind, fs[k].coef),
                                   !.cur_order = fs[k].ao])
    IN  IF ~op.cur_none
        THEN AdvanceLoop(op, fs, op.cur_order)
        ELSE IF op.op_iter >= Len(fs)
             THEN OpFail(op, fs, "StopIteration")
             ELSE Pulled([op EXCEPT !.op_iter = @ + 1], op.op_iter + 1)

\* __getitem__ that advances at most once
InfiniteGetItemOnce(op, fs, n) ==
    LET Advanced(r) ==
            IF r.err # "none"
            THEN r
            ELSE OpRet(r.op, r.fs, r.op.cur[n])
    IN  IF n >= op.cur_order
        THEN Advanced(Advance(op, fs))
        ELSE OpRet(op, fs, op.cur[n])

\* Stream_infinite_operator.__getitem__
RECURSIVE InfiniteGetItem(_, _, _)
InfiniteGetItem(op, fs, n) ==
    LET Advanced(r) ==
            IF r.err # "none"
            THEN r
            ELSE InfiniteGetItem(r.op, r.fs, n)
    IN  IF n >= op.cur_order
        THEN Advanced(Advance(op, fs))
        ELSE OpRet(op, fs, op.cur[n])

\* the state after a call on the infinite operator
OpCompleted(name, n, r) ==
    /\ ex' = r.op
    /\ inp' = r.fs
    /\ last' = [op |-> name, id |-> "op", n |-> n, ret |-> r.ret,
                err |-> r.err]
    /\ UNCHANGED <<f, a0, s, w>>

\* the length of the iterators on which _advance is still called after the
\* iterator is exhausted
MaxExhausted == 2

\* op._advance(), on a stream on which nothing else was called: last.n
\* counts the calls
AdvanceCall ==
    /\ last.op \in {"none", "advance"}
    /\ last.err = "none"
    /\ \/ ex.cur_order # Infinity
       \/ Len(inp) <= MaxExhausted /\ last.n <= Len(inp) + 1
    /\ OpCompleted("advance", last.n + 1, Advance(ex, inp))

\* op[n]
IndexOperator(n) ==
    /\ last.err = "none"
    /\ OpCompleted("getitem", n, InfiniteGetItem(ex, inp, n))

InitInfinite ==
    /\ f = [i \in Idx |-> 0]
    /\ a0 = 0
    /\ s = NoStream
    /\ w = NoStream
    /\ last = NoCall
    /\ inp \in Iterators(MaxFactors)
    /\ \E kind \in {"infinite_sum", "infinite_product"} :
          ex = StreamInfiniteOperator(kind)

NextInfinite ==
    \/ AdvanceCall
    \/ \E n \in (0 - MaxFactors)..MaxRequest : IndexOperator(n)

SpecInfinite == InitInfinite /\ [][NextInfinite]_vars

(* --------------------------- is_uninitialized -------------------------- *)

\* the streams of a graph are numbered in the order of their construction
MaxNodes == 3
Nodes == 1..MaxNodes

\* the value of a _target, _series, _left or _right that is absent
NoNode == 0

\* a stream whose is_uninitialized is the default of Stream
DefaultNode ==
    [kind |-> "default", target |-> NoNode, series |-> NoNode, left |-> NoNode,
     right |-> NoNode]

\* a Stream_uninitialized with the given _target
UninitializedNode(t) == [DefaultNode EXCEPT !.kind = "uninitialized",
                                            !.target = t]

\* a Stream_unary over the stream x
UnaryNode(x) == [DefaultNode EXCEPT !.kind = "unary", !.series = x]

\* a Stream_binary over the streams x and y
BinaryNode(x, y) == [DefaultNode EXCEPT !.kind = "binary", !.left = x,
                                        !.right = y]

\* the streams that can be built as the i-th one: the operands of a unary or
\* binary stream exist when it is built, the _target of a placeholder is
\* assigned later and is any stream
NodesAt(i) ==
    {DefaultNode}
        \cup {UninitializedNode(t) : t \in Nodes \cup {NoNode}}
        \cup {UnaryNode(x) : x \in 1..(i - 1)}
        \cup {BinaryNode(x, y) : x \in 1..(i - 1), y \in 1..(i - 1)}

Graphs == {g \in [Nodes -> NodesAt(MaxNodes)] : \A i \in Nodes : g[i] \in NodesAt(i)}

\* the frame of a call of is_uninitialized on stream v
Frame(v) == [node |-> v, pc |-> "start"]

\* the running call returns r to its caller
Return(e, r) ==
    [e EXCEPT !.stack = SubSeq(@, 1, Len(@) - 1), !.ret = r]

\* the running call goes on at pc once its call of v.is_uninitialized()
\* has returned
Enter(e, v, pc) ==
    [e EXCEPT !.stack = Append([@ EXCEPT ![Len(@)].pc = pc], Frame(v))]

\* the frame of the running call
Top == ex.stack[Len(ex.stack)]

\* the state after a step of the running call: the outermost call returns
\* to the caller of x.is_uninitialized()
Stepped(e) ==
    /\ ex' = e
    /\ last' = IF e.stack = <<>>
               THEN [last EXCEPT !.ret = IF e.ret THEN 1 ELSE 0,
                                 !.err = "none"]
               ELSE last
    /\ UNCHANGED <<f, a0, s, w, inp>>

\* x.is_uninitialized() is called on stream v
IsUninitializedCall(v) ==
    /\ ex.stack = <<>>
    /\ ex' = [ex EXCEPT !.stack = <<Frame(v)>>]
    /\ last' = [op |-> "is_uninitialized", id |-> "node", n |-> v, ret |-> 0,
                err |-> "running"]
    /\ UNCHANGED <<f, a0, s, w, inp>>

\* Stream.is_uninitialized
StreamIsUninitialized ==
    /\ ex.stack # <<>>
    /\ inp[Top.node].kind = "default"
    /\ Stepped(Return(ex, FALSE))

\* Stream_uninitialized.is_uninitialized that leaves _initializing set
UninitializedReturnKeepFlag(e, v) == Return(e, e.ret)

\* Stream_uninitialized.is_uninitialized: "self._initializing = False;
\* return result"
UninitializedReturn(e, v) ==
    Return([e EXCEPT !.initializing[v] = FALSE], e.ret)

\* Stream_uninitialized.is_uninitialized
UninitializedIsUninitialized ==
    /\ ex.stack # <<>>
    /\ inp[Top.node].kind = "uninitialized"
    /\ Stepped(IF Top.pc = "start"
               THEN IF inp[Top.node].target = NoNode
                    THEN Return(ex, TRUE)
                    ELSE IF ex.initializing[Top.node]
                         THEN Return(ex, FALSE)
                         ELSE Enter([ex EXCEPT
                                        !.initializing[Top.node] = TRUE],
                                    inp[Top.node].target, "target")
               ELSE UninitializedReturn(ex, Top.node))

\* Stream_unary.is_uninitialized
UnaryIsUninitialized ==
    /\ ex.stack # <<>>
    /\ inp[Top.node].kind = "unary"
    /\ Stepped(IF Top.pc = "start"
               THEN Enter(ex, inp[Top.node].series, "series")
               ELSE Return(ex, ex.ret))

\* BinaryIsUninitialized that returns what the left operand answered
BinaryIsUninitializedLeft ==
    /\ ex.stack # <<>>
    /\ inp[Top.node].kind = "binary"
    /\ Stepped(IF Top.pc = "start"
               THEN Enter(ex, inp[Top.node].left, "left")
               ELSE Return(ex, ex.ret))

\* Stream_binary.is_uninitialized: "self._left.is_uninitialized() or
\* self._right.is_uninitialized()"
BinaryIsUninitialized ==
    /\ ex.stack # <<>>
    /\ inp[Top.node].kind = "binary"
    /\ Stepped(CASE Top.pc = "start" ->
                       Enter(ex, inp[Top.node].left, "left")
                 [] Top.pc = "left" ->
                       IF ex.ret
                       THEN Return(ex, TRUE)
                       ELSE Enter(ex, inp[Top.node].right, "right")
                 [] OTHER -> Return(ex, ex.ret))

\* a step of the running call
IsUninitializedStep ==
    \/ StreamIsUninitialized
    \/ UninitializedIsUninitialized
    \/ UnaryIsUninitialized
    \/ BinaryIsUninitialized

InitUninitialized ==
    /\ f = [i \in Idx |-> 0]
    /\ a0 = 0
    /\ s = NoStream
    /\ w = NoStream
    /\ last = NoCall
    /\ inp \in Graphs
    /\ ex = [initializing |-> [v \in Nodes |-> FALSE], stack |-> <<>>,
             ret |-> FALSE]

NextUninitialized ==
    \/ \E v \in Nodes : IsUninitializedCall(v)
    \/ IsUninitializedStep

\* a call that was started runs on
SpecUninitialized ==
    InitUninitialized /\ [][NextUninitialized]_vars
        /\ WF_vars(IsUninitializedStep)

(* ------------------------- Stream_cauchy_invert ------------------------ *)

\* the operand of the inverse is a Stream_function of approximate order
\* CauchyOrder whose function is f on CauchyIdx and zero elsewhere
CauchyIdx == (0 - 1)..(MaxIdx - 1)
CauchyOrder == 0 - 1
CauchyVals == {0, 1, 2, 5}

\* indices at which the inverse is requested
InverseIdx == (0 - MaxIdx)..(MaxIdx - 1)

\* self._series[n]
SeriesGetItem(n) == IF n \in CauchyIdx THEN f[n] ELSE 0

\* self._series.order(): the least index with a nonzero coefficient
SeriesOrder ==
    CHOOSE n \in CauchyIdx :
        f[n] # 0 /\ \A j \in CauchyIdx : j < n => f[j] = 0

\* the result of an operation on the inverse h
InvRet(h, ret) == [h |-> h, ret |-> ret, err |-> "none"]
InvFail(h, err) == [h |-> h, ret |-> 0, err |-> err]

\* Stream_cauchy_invert.__init__: dense, the order not known to be true,
\* _approximate_order a lazy attribute unless it is given
StreamCauchyInvert(approximate_order) ==
    [kind |-> "cauchy_invert",
     given |-> approximate_order.given,
     lazy |-> ~approximate_order.given,
     ao |-> approximate_order.v,
     true_order |-> FALSE,
     cache |-> <<>>,
     iter |-> [n |-> 0, v |-> 0, dead |-> FALSE],
     ainv |-> [known |-> FALSE, v |-> 0]]

\* the lazy attribute _approximate_order of Stream_cauchy_invert
CauchyInvertApproximateOrder(h) ==
    IF h.lazy
    THEN InvRet([h EXCEPT !.lazy = FALSE, !.ao = 0 - SeriesOrder],
                0 - SeriesOrder)
    ELSE InvRet(h, h.ao)

\* the lazy attribute _ainv of Stream_cauchy_invert
CauchyInvertAinv(h) ==
    IF h.ainv.known
    THEN InvRet(h, h.ainv.v)
    ELSE IF IsUnit(SeriesGetItem(SeriesOrder))
         THEN InvRet([h EXCEPT !.ainv =
                          [known |-> TRUE,
                           v |-> Inverse(SeriesGetItem(SeriesOrder))]],
                     Inverse(SeriesGetItem(SeriesOrder)))
         ELSE InvFail(h, "ZeroDivisionError")

\* the first loop of iterate_coefficients with self._series[n - k]
RECURSIVE CauchyInvertSumUnshifted(_, _, _, _)
CauchyInvertSumUnshifted(cache, v, n, k) ==
    IF k >= n
    THEN 0
    ELSE Add(Mul(cache[k + 1], SeriesGetItem(n - k)),
             CauchyInvertSumUnshifted(cache, v, n, k + 1))

\* iterate_coefficients: "for k in range(m): l = self._cache[k]; if l:
\* c += l * self._series[n - v - k]", with m = n
RECURSIVE CauchyInvertSum(_, _, _, _)
CauchyInvertSum(cache, v, n, k) ==
    IF k >= n
    THEN 0
    ELSE Add(Mul(cache[k + 1], SeriesGetItem((n - v) - k)),
             CauchyInvertSum(cache, v, n, k + 1))

\* next(self._iter) of Stream_cauchy_invert.iterate_coefficients: the first
\* call yields _ainv, the second reads v = self._approximate_order, and the
\* n-th later call yields -c * _ainv. With fewer than n values in the cache
\* the second loop evaluates self[k], which calls next on the running
\* generator: ValueError. An exception ends the generator.
CauchyInvertNext(h) ==
    LET Dead(r) == InvFail([r.h EXCEPT !.iter.dead = TRUE], r.err)
        First(r) ==
            IF r.err # "none"
            THEN Dead(r)
            ELSE InvRet([r.h EXCEPT !.iter.n = 1], r.ret)
        Later(g, v) ==
            IF Len(g.cache) < g.iter.n
            THEN Dead(InvFail(g, "ValueError"))
            ELSE InvRet([g EXCEPT !.iter.n = @ + 1, !.iter.v = v],
                        Mul(Neg(CauchyInvertSum(g.cache, v, g.iter.n, 0)),
                            g.ainv.v))
        Resumed(r) == Later(r.h, r.ret)
    IN  IF h.iter.dead
        THEN InvFail(h, "StopIteration")
        ELSE IF h.iter.n = 0
             THEN First(CauchyInvertAinv(h))
             ELSE IF h.iter.n = 1
                  THEN Resumed(CauchyInvertApproximateOrder(h))
                  ELSE Later(h, h.iter.v)

\* Stream_inexact.__getitem__ (dense): "while not self._true_order and
\* n >= self._approximate_order"
RECURSIVE CauchyInvertSeek(_, _)
CauchyInvertSeek(h, n) ==
    LET Step(r) ==
            IF r.err # "none"
            THEN r
            ELSE IF r.ret # 0
                 THEN CauchyInvertSeek([r.h EXCEPT !.true_order = TRUE,
                                                   !.cache = Append(@, r.ret)],
                                       n)
                 ELSE CauchyInvertSeek([r.h EXCEPT !.ao = @ + 1], n)
    IN  IF ~h.true_order /\ n >= h.ao
        THEN Step(CauchyInvertNext(h))
        ELSE InvRet(h, 0)

\* Stream_inexact.__getitem__ (dense): the cache extended by a generator
\* expression, in which a StopIteration becomes a RuntimeError
RECURSIVE CauchyInvertExtend(_, _)
CauchyInvertExtend(h, k) ==
    LET Step(r) ==
            IF r.err = "StopIteration"
            THEN InvFail(r.h, "RuntimeError")
            ELSE IF r.err # "none"
                 THEN r
                 ELSE CauchyInvertExtend([r.h EXCEPT !.cache =
                                              Append(@, r.ret)], k - 1)
    IN  IF k <= 0
        THEN InvRet(h, 0)
        ELSE Step(CauchyInvertNext(h))

\* Stream_inexact.__getitem__ on the Stream_cauchy_invert
CauchyInvertGetItem(h, n) ==
    LET Extended(r2) ==
            IF r2.err # "none"
            THEN r2
            ELSE InvRet(r2.h, r2.h.cache[(n - r2.h.ao) + 1])
        Sought(r1) ==
            IF r1.err # "none"
            THEN r1
            ELSE IF r1.h.true_order
                 THEN Extended(CauchyInvertExtend(r1.h,
                                   (n - r1.h.ao) - Len(r1.h.cache) + 1))
                 ELSE InvRet(r1.h, 0)
        Forced(r0) ==
            IF n < r0.ret
            THEN InvRet(r0.h, 0)
            ELSE Sought(CauchyInvertSeek(r0.h, n))
    IN  Forced(CauchyInvertApproximateOrder(h))

\* h = Stream_cauchy_invert(g) or Stream_cauchy_invert(g, approximate_order)
\* with a lower bound of the order of the inverse
CauchyInvert(approximate_order) ==
    /\ ex = NoStream
    /\ ex' = StreamCauchyInvert(approximate_order)
    /\ last' = [op |-> "init", id |-> "h", n |-> 0, ret |-> 0,
                err |-> "none"]
    /\ UNCHANGED <<f, a0, s, w, inp>>

\* h[n]
IndexInverse(n) ==
    /\ ex # NoStream
    /\ LET Done(r) ==
               /\ ex' = r.h
               /\ last' = [op |-> "getitem", id |-> "h", n |-> n,
                           ret |-> r.ret, err |-> r.err]
       IN  Done(CauchyInvertGetItem(ex, n))
    /\ UNCHANGED <<f, a0, s, w, inp>>

InitCauchy ==
    /\ f \in {g \in [CauchyIdx -> CauchyVals] : \E n \in CauchyIdx : g[n] # 0}
    /\ a0 = CauchyOrder
    /\ s = NoStream
    /\ w = NoStream
    /\ last = NoCall
    /\ inp = <<>>
    /\ ex = NoStream

NextCauchy ==
    \/ CauchyInvert(None)
    \/ \E d \in {0, 1} : CauchyInvert(Some((0 - SeriesOrder) - d))
    \/ \E n \in InverseIdx : IndexInverse(n)

SpecCauchy == InitCauchy /\ [][NextCauchy]_vars

(* ----------------------------- Stream_binary --------------------------- *)

\* indices at which the functions of the two operands may be nonzero, and
\* the indices requested
BinIdx == 0..(MaxIdx - 1)
BinRequests == (0 - 1)..(MaxIdx - 1)

\* the indices at which an operand is read directly
BinProbes == {0}

\* the binary streams constructed: sums and differences sparse and dense,
\* products sparse
BinaryKinds == {"add", "sub", "cauchy_mul", "dirichlet_convolve"}
BinaryShapes ==
    {c \in BinaryKinds \X BOOLEAN : c[1] \in {"add", "sub"} \/ c[2]}

\* the functions of the left operand, among them n |-> n, and of the right
\* operand, among them n |-> 1
LeftFunctions == [BinIdx -> {0, 1, 5}] \cup {[n \in BinIdx |-> n % RingMod]}
RightFunctions == [BinIdx -> {0, 1}]

\* an operand: a sparse Stream_function of approximate order 0 whose
\* function is fn on BinIdx and zero elsewhere
Operand(fn) ==
    [ao |-> 0, true_order |-> FALSE, cache |-> EmptyDict, coef |-> fn]

\* the function of an operand at n
OperandCoefficient(p, n) == IF n \in DOMAIN p.coef THEN p.coef[n] ELSE 0

\* Stream_inexact.__getitem__ on an operand (sparse)
OperandGetItem(p, n) ==
    LET c == OperandCoefficient(p, n)
        Moved(sc) ==
            [p |-> [p EXCEPT !.ao = sc.ao, !.true_order = sc.found],
             ret |-> 0]
    IN  IF n < p.ao
        THEN [p |-> p, ret |-> 0]
        ELSE IF n \in DOMAIN p.cache
             THEN [p |-> p, ret |-> p.cache[n]]
             ELSE IF p.true_order \/ n > p.ao
                  THEN [p |-> [p EXCEPT !.cache = (n :> c) @@ @], ret |-> c]
                  ELSE IF c # 0
                       THEN [p |-> [p EXCEPT !.cache = (n :> c) @@ @,
                                             !.true_order = TRUE],
                             ret |-> c]
                       ELSE Moved(ScanSparse(p.cache, p.ao + 1))

\* the result of an operation in the world B of the operands l and r and
\* the binary stream h
BinRet(B, ret) == [B |-> B, ret |-> ret, err |-> "none"]
BinFail(B, err) == [B |-> B, ret |-> 0, err |-> err]

\* self._left[n], self._right[n]
LeftGetItem(B, n) ==
    LET Then(g) == BinRet([B EXCEPT !.l = g.p], g.ret)
    IN  Then(OperandGetItem(B.l, n))
RightGetItem(B, n) ==
    LET Then(g) == BinRet([B EXCEPT !.r = g.p], g.ret)
    IN  Then(OperandGetItem(B.r, n))

\* Stream_binary.__init__: h = Stream_add(l, r, is_sparse), Stream_sub,
\* Stream_cauchy_mul or Stream_dirichlet_convolve
StreamBinary(kind, is_sparse) ==
    [kind |-> kind, is_sparse |-> is_sparse, lazy |-> TRUE, ao |-> 0,
     true_order |-> FALSE,
     cache |-> IF is_sparse THEN EmptyDict ELSE <<>>,
     iter |-> [started |-> FALSE, n |-> 0]]

\* the lazy attribute _approximate_order of Stream_dirichlet_convolve
DirichletConvolveApproximateOrder(B) ==
    IF B.l.ao <= 0 \/ B.r.ao <= 0
    THEN BinFail(B, "ValueError")
    ELSE BinRet(B, B.l.ao * B.r.ao)

\* the lazy attribute _approximate_order of Stream_add, Stream_sub,
\* Stream_cauchy_mul and Stream_dirichlet_convolve
BinaryApproximateOrder(B) ==
    CASE B.h.kind \in {"add", "sub"} ->
            BinRet(B, IF B.l.ao <= B.r.ao THEN B.l.ao ELSE B.r.ao)
      [] B.h.kind = "cauchy_mul" -> BinRet(B, B.l.ao + B.r.ao)
      [] B.h.kind = "dirichlet_convolve" ->
            DirichletConvolveApproximateOrder(B)

\* first access to self._approximate_order: a lazy attribute is computed
\* and stored, unless its computation raises
BinaryForce(B) ==
    LET Stored(r) ==
            IF r.err # "none"
            THEN r
            ELSE BinRet([r.B EXCEPT !.h.ao = r.ret, !.h.lazy = FALSE],
                        r.ret)
    IN  IF ~B.h.lazy
        THEN BinRet(B, B.h.ao)
        ELSE Stored(BinaryApproximateOrder(B))

\* Stream_sub.get_coefficient with the operands exchanged
SubGetCoefficientSwapped(B, n) ==
    LET Both(x, y) == BinRet(y.B, Add(y.ret, Neg(x.ret)))
        First(x) == Both(x, RightGetItem(x.B, n))
    IN  First(LeftGetItem(B, n))

\* Stream_sub.get_coefficient
SubGetCoefficient(B, n) ==
    LET Both(x, y) == BinRet(y.B, Add(x.ret, Neg(y.ret)))
        First(x) == Both(x, RightGetItem(x.B, n))
    IN  First(LeftGetItem(B, n))

\* Stream_add.get_coefficient
AddGetCoefficient(B, n) ==
    LET Both(x, y) == BinRet(y.B, Add(x.ret, y.ret))
        First(x) == Both(x, RightGetItem(x.B, n))
    IN  First(LeftGetItem(B, n))

\* Stream_cauchy_mul.get_coefficient: the sum over k from k to hi, the
\* range taken when the sum starts
RECURSIVE CauchyMulSum(_, _, _, _, _)
CauchyMulSum(B, n, k, hi, c) ==
    LET Mult(x, y) == CauchyMulSum(y.B, n, k + 1, hi,
                                   Add(c, Mul(x.ret, y.ret)))
        Got(x) ==
            IF x.ret = 0
            THEN CauchyMulSum(x.B, n, k + 1, hi, c)
            ELSE Mult(x, RightGetItem(x.B, n - k))
    IN  IF k > hi
        THEN BinRet(B, c)
        ELSE Got(LeftGetItem(B, k))

\* the sum of Stream_dirichlet_convolve.get_coefficient with the divisors
\* k <= left._approximate_order skipped
RECURSIVE DirichletConvolveSumStrict(_, _, _, _)
DirichletConvolveSumStrict(B, n, k, c) ==
    LET Mult(x, y) == DirichletConvolveSumStrict(y.B, n, k + 1,
                                                 Add(c, Mul(x.ret, y.ret)))
        Got(x) ==
            IF x.ret = 0
            THEN DirichletConvolveSumStrict(x.B, n, k + 1, c)
            ELSE Mult(x, RightGetItem(x.B, n \div k))
    IN  IF k > n
        THEN BinRet(B, c)
        ELSE IF n % k # 0 \/ k <= B.l.ao \/ (n \div k) < B.r.ao
             THEN DirichletConvolveSumStrict(B, n, k + 1, c)
             ELSE Got(LeftGetItem(B, k))

\* Stream_dirichlet_convolve.get_coefficient: the sum over the divisors of
\* n from k on, the approximate orders read at every divisor
RECURSIVE DirichletConvolveSum(_, _, _, _)
DirichletConvolveSum(B, n, k, c) ==
    LET Mult(x, y) == DirichletConvolveSum(y.B, n, k + 1,
                                           Add(c, Mul(x.ret, y.ret)))
        Got(x) ==
            IF x.ret = 0
            THEN DirichletConvolveSum(x.B, n, k + 1, c)
            ELSE Mult(x, RightGetItem(x.B, n \div k))
    IN  IF k > n
        THEN BinRet(B, c)
        ELSE IF n % k # 0 \/ k < B.l.ao \/ (n \div k) < B.r.ao
             THEN DirichletConvolveSum(B, n, k + 1, c)
             ELSE Got(LeftGetItem(B, k))

\* get_coefficient of the binary stream
BinaryGetCoefficient(B, n) ==
    CASE B.h.kind = "add" -> AddGetCoefficient(B, n)
      [] B.h.kind = "sub" -> SubGetCoefficient(B, n)
      [] B.h.kind = "cauchy_mul" ->
            CauchyMulSum(B, n, B.l.ao, n - B.r.ao, 0)
      [] B.h.kind = "dirichlet_convolve" -> DirichletConvolveSum(B, n, 1, 0)

\* next(self._iter) of Stream_inexact.iterate_coefficients on the binary
\* stream: the first call reads _approximate_order
BinaryNext(B) ==
    LET Yield(n, r) ==
            BinRet([r.B EXCEPT !.h.iter = [started |-> TRUE, n |-> n + 1]],
                   r.ret)
        At(n) == Yield(n, BinaryGetCoefficient(B, n))
    IN  At(IF B.h.iter.started THEN B.h.iter.n ELSE B.h.ao)

\* dense: "while not self._true_order and n >= self._approximate_order"
RECURSIVE BinarySeek(_, _)
BinarySeek(B, n) ==
    LET Step(r) ==
            IF r.ret # 0
            THEN BinarySeek([r.B EXCEPT !.h.true_order = TRUE,
                                        !.h.cache = Append(@, r.ret)], n)
            ELSE BinarySeek([r.B EXCEPT !.h.ao = @ + 1], n)
    IN  IF ~B.h.true_order /\ n >= B.h.ao
        THEN Step(BinaryNext(B))
        ELSE BinRet(B, 0)

\* dense: self._cache.extend(next(self._iter) for _ in range(k))
RECURSIVE BinaryExtend(_, _)
BinaryExtend(B, k) ==
    LET Step(r) ==
            BinaryExtend([r.B EXCEPT !.h.cache = Append(@, r.ret)], k - 1)
    IN  IF k <= 0
        THEN BinRet(B, 0)
        ELSE Step(BinaryNext(B))

\* the dense branch of Stream_inexact.__getitem__ on the binary stream
BinaryGetItemDense(B, n) ==
    LET Extended(r2) == BinRet(r2.B, r2.B.h.cache[(n - r2.B.h.ao) + 1])
        Sought(r1) ==
            IF r1.B.h.true_order
            THEN Extended(BinaryExtend(r1.B,
                              (n - r1.B.h.ao) - Len(r1.B.h.cache) + 1))
            ELSE BinRet(r1.B, 0)
    IN  Sought(BinarySeek(B, n))

\* the sparse branch of Stream_inexact.__getitem__ on the binary stream
BinaryGetItemSparse(B, n) ==
    LET Moved(r, sc) ==
            BinRet([r.B EXCEPT !.h.true_order = sc.found, !.h.ao = sc.ao],
                   r.ret)
        Stored(r) == [r.B EXCEPT !.h.cache = (n :> r.ret) @@ @]
        Miss(r) ==
            IF r.B.h.true_order \/ n > r.B.h.ao
            THEN BinRet(Stored(r), r.ret)
            ELSE IF r.ret # 0
                 THEN BinRet([Stored(r) EXCEPT !.h.true_order = TRUE], r.ret)
                 ELSE Moved(r, ScanSparse(r.B.h.cache, r.B.h.ao + 1))
    IN  IF n \in DOMAIN B.h.cache
        THEN BinRet(B, B.h.cache[n])
        ELSE Miss(BinaryGetCoefficient(B, n))

\* Stream_inexact.__getitem__ on the binary stream
BinaryGetItem(B, n) ==
    LET Forced(r0) ==
            IF r0.err # "none"
            THEN r0
            ELSE IF n < r0.ret
                 THEN BinRet(r0.B, 0)
                 ELSE IF r0.B.h.is_sparse
                      THEN BinaryGetItemSparse(r0.B, n)
                      ELSE BinaryGetItemDense(r0.B, n)
    IN  Forced(BinaryForce(B))

\* the operands and the binary stream
BinWorld == [l |-> inp.l, r |-> inp.r, h |-> ex]

\* the state after a call in the world of the binary stream
BinCompleted(op, id, n, r) ==
    /\ inp' = [l |-> r.B.l, r |-> r.B.r]
    /\ ex' = r.B.h
    /\ last' = [op |-> op, id |-> id, n |-> n, ret |-> r.ret, err |-> r.err]
    /\ UNCHANGED <<f, a0, s, w>>

\* h[n]
IndexBinary(n) ==
    /\ ex.kind \in BinaryKinds
    /\ BinCompleted("getitem", "h", n, BinaryGetItem(BinWorld, n))

\* l[n]
IndexLeft(n) ==
    /\ n \in DOMAIN inp.l.coef
    /\ BinCompleted("getitem", "l", n, LeftGetItem(BinWorld, n))

\* r[n]
IndexRight(n) ==
    /\ n \in DOMAIN inp.r.coef
    /\ BinCompleted("getitem", "r", n, RightGetItem(BinWorld, n))

InitBinary ==
    /\ f = [i \in Idx |-> 0]
    /\ a0 = 0
    /\ s = NoStream
    /\ w = NoStream
    /\ last = NoCall
    /\ \E fl \in LeftFunctions, fr \in RightFunctions :
          inp = [l |-> Operand(fl), r |-> Operand(fr)]
    /\ \E c \in BinaryShapes : ex = StreamBinary(c[1], c[2])

NextBinary ==
    \/ \E n \in BinRequests : IndexBinary(n)
    \/ \E n \in BinProbes : IndexLeft(n)
    \/ \E n \in BinProbes : IndexRight(n)

SpecBinary == InitBinary /\ [][NextBinary]_vars

(* ---------------------------- Stream_derivative ------------------------ *)

\* indices at which the function of the source may be nonzero, the
\* approximate orders it is created with, the shifts of the derivative and
\* the indices requested
SourceIdx == (0 - 1)..(MaxIdx - 1)
SourceOrders == (0 - 1)..MaxIdx
DerivativeShifts == {1, 2}
DerivativeRequests == (0 - 3)..(MaxIdx - 1)
SourceProbes == {0 - 1, 0}

\* the source: Stream_function(fn, True, approximate_order); the function
\* is only called from approximate_order on
Source(fn, approximate_order) ==
    [Operand(fn) EXCEPT !.ao = approximate_order] @@ [kind |-> "function"]

\* an integer as an element of the ring
IntoRing(z) == ((z % RingMod) + RingMod) % RingMod

\* prod(n + k for k in range(1, shift + 1))
RECURSIVE RisingProduct(_, _)
RisingProduct(n, shift) ==
    IF shift = 0 THEN 1 ELSE (n + shift) * RisingProduct(n, shift - 1)

\* Stream_derivative.__init__
StreamDerivative(shift) ==
    [kind |-> "derivative", shift |-> shift, lazy |-> TRUE, ao |-> 0,
     true_order |-> FALSE]

\* _approximate_order of Stream_derivative with the shift added
DerivativeApproximateOrderAdded(series, d) ==
    IF 0 <= series.ao /\ series.ao <= d.shift
    THEN 0
    ELSE series.ao + d.shift

\* the lazy attribute _approximate_order of Stream_derivative
DerivativeApproximateOrder(series, d) ==
    IF 0 <= series.ao /\ series.ao <= d.shift
    THEN 0
    ELSE series.ao - d.shift

\* Stream_derivative.__getitem__
DerivativeGetItem(series, d, n) ==
    LET Then(g) ==
            [p |-> g.p,
             ret |-> Mul(IntoRing(RisingProduct(n, d.shift)), g.ret)]
    IN  Then(OperandGetItem(series, n + d.shift))

\* d._approximate_order
DerivativeOrder ==
    /\ ex.lazy
    /\ ex' = [ex EXCEPT !.lazy = FALSE,
                        !.ao = DerivativeApproximateOrder(inp, ex)]
    /\ last' = [op |-> "approximate_order", id |-> "d", n |-> 0,
                ret |-> DerivativeApproximateOrder(inp, ex), err |-> "none"]
    /\ UNCHANGED <<f, a0, s, w, inp>>

\* d[n]
IndexDerivative(n) ==
    /\ ex.kind = "derivative"
    /\ inp' = DerivativeGetItem(inp, ex, n).p
    /\ last' = [op |-> "getitem", id |-> "d", n |-> n,
                ret |-> DerivativeGetItem(inp, ex, n).ret, err |-> "none"]
    /\ UNCHANGED <<f, a0, s, w, ex>>

\* the source is indexed: series[n]
IndexSource(n) ==
    /\ n \in DOMAIN inp.coef
    /\ inp' = OperandGetItem(inp, n).p
    /\ last' = [op |-> "getitem", id |-> "series", n |-> n,
                ret |-> OperandGetItem(inp, n).ret, err |-> "none"]
    /\ UNCHANGED <<f, a0, s, w, ex>>

\* Stream_inexact.is_nonzero on a sparse stream: any(self._cache.values())
InexactIsNonzero(series) ==
    \E i \in DOMAIN series.cache : series.cache[i] # 0

\* Stream_derivative.is_nonzero: self._series.is_nonzero()
DerivativeIsNonzero(series, d) == InexactIsNonzero(series)

\* series.is_nonzero()
IsNonzeroSource ==
    /\ inp.kind = "function"
    /\ last' = [op |-> "is_nonzero", id |-> "series", n |-> 0,
                ret |-> InexactIsNonzero(inp), err |-> "none"]
    /\ UNCHANGED <<f, a0, s, w, inp, ex>>

\* d.is_nonzero()
IsNonzeroDerivative ==
    /\ ex.kind = "derivative"
    /\ last' = [op |-> "is_nonzero", id |-> "d", n |-> 0,
                ret |-> DerivativeIsNonzero(inp, ex), err |-> "none"]
    /\ UNCHANGED <<f, a0, s, w, inp, ex>>

InitDerivative ==
    /\ f = [i \in Idx |-> 0]
    /\ a0 = 0
    /\ s = NoStream
    /\ w = NoStream
    /\ last = NoCall
    /\ \E o \in SourceOrders :
          \E fn \in {g \in [SourceIdx -> {0, 1}] :
                        \A n \in SourceIdx : n < o => g[n] = 0} :
              inp = Source(fn, o)
    /\ \E shift \in DerivativeShifts : ex = StreamDerivative(shift)

NextDerivative ==
    \/ DerivativeOrder
    \/ \E n \in DerivativeRequests : IndexDerivative(n)
    \/ \E n \in SourceProbes : IndexSource(n)
    \/ IsNonzeroSource
    \/ IsNonzeroDerivative

SpecDerivative == InitDerivative /\ [][NextDerivative]_vars

(* ------------------------ __eq__, __ne__, __hash__ ----------------------- *)

\* the functions given to Stream_function: n |-> 1 and n |-> n on 0..1,
\* zero elsewhere; two streams share a function when their fn are equal
CompareFunctions == {[n \in 0..1 |-> 1], [n \in 0..1 |-> n]}

\* Stream_function(fn, is_sparse, approximate_order), no coefficient
\* requested yet
FreshFunction(fn, is_sparse, approximate_order) ==
    [kind |-> "function", fn |-> fn, is_sparse |-> is_sparse,
     ao |-> approximate_order, true_order |-> FALSE,
     cache |-> IF is_sparse THEN EmptyDict ELSE <<>>]

\* Stream_shift(series, shift): __init__ sets _series, _shift and
\* _true_order
FreshShift(series, shift) ==
    [kind |-> "shift", series |-> series, shift |-> shift,
     true_order |-> series.true_order]

\* Stream_truncated(series, shift, minimal_valuation) over a stream with
\* an empty cache
FreshTruncated(series, shift, minimal_valuation) ==
    [kind |-> "truncated", series |-> series, shift |-> shift,
     is_sparse |-> series.is_sparse, ao |-> minimal_valuation,
     true_order |-> FALSE, cache |-> series.cache]

\* Stream_add(left, right, is_sparse) and the other binary streams
FreshBinary(kind, left, right, is_sparse) ==
    [kind |-> kind, left |-> left, right |-> right,
     is_sparse |-> is_sparse, true_order |-> FALSE,
     cache |-> IF is_sparse THEN EmptyDict ELSE <<>>]

\* the streams compared
FunctionStreams ==
    {FreshFunction(fn, sp, o) :
        fn \in CompareFunctions, sp \in BOOLEAN, o \in {0, 1}}
SparseFunctionStreams == {x \in FunctionStreams : x.is_sparse}
ExactStreams ==
    {StreamExact(<<1>>, None, None, Some(o)) : o \in {0, 1}}
ShiftStreams ==
    {FreshShift(x, k) : x \in FunctionStreams, k \in {0, 1}}
TruncatedStreams ==
    {FreshTruncated(x, k, v) :
        x \in FunctionStreams, k \in {0 - 1, 0}, v \in {0, 1}}
BinaryTypes == {"add", "sub", "cauchy_mul", "cauchy_mul_commutative"}
BinaryStreams ==
    {FreshBinary(kind, l, r, TRUE) :
        kind \in BinaryTypes, l \in SparseFunctionStreams,
        r \in SparseFunctionStreams}
ComparedStreams ==
    FunctionStreams \cup ExactStreams \cup ShiftStreams
        \cup TruncatedStreams \cup BinaryStreams

\* isinstance(other, type(self))
IsInstance(other, self) ==
    \/ other.kind = self.kind
    \/ self.kind = "cauchy_mul" /\ other.kind = "cauchy_mul_commutative"

RECURSIVE StreamEq(_, _)

\* Stream_binaryCommutative.__eq__ without the exchanged comparison
BinaryCommutativeEqOrdered(self, other) ==
    /\ IsInstance(other, self)
    /\ StreamEq(self.left, other.left) /\ StreamEq(self.right, other.right)

\* Stream_binaryCommutative.__eq__
BinaryCommutativeEq(self, other) ==
    /\ IsInstance(other, self)
    /\ \/ StreamEq(self.left, other.left)
          /\ StreamEq(self.right, other.right)
       \/ StreamEq(self.left, other.right)
          /\ StreamEq(self.right, other.left)

\* Stream_binary.__eq__
BinaryEq(self, other) ==
    /\ IsInstance(other, self)
    /\ StreamEq(self.left, other.left)
    /\ StreamEq(self.right, other.right)

\* Stream_function.__eq__
FunctionEq(self, other) ==
    IsInstance(other, self) /\ self.fn = other.fn

\* Stream_shift.__eq__ and Stream_truncated.__eq__
ShiftEq(self, other) ==
    /\ IsInstance(other, self)
    /\ self.shift = other.shift
    /\ StreamEq(self.series, other.series)

\* self.__eq__(other)
MethodEq(self, other) ==
    CASE self.kind = "function" -> FunctionEq(self, other)
      [] self.kind = "exact" -> ExactEq(self, other)
      [] self.kind \in {"shift", "truncated"} -> ShiftEq(self, other)
      [] self.kind \in {"sub", "cauchy_mul"} -> BinaryEq(self, other)
      [] self.kind \in {"add", "cauchy_mul_commutative"} ->
            BinaryCommutativeEq(self, other)

\* x == y with the method of x always asked first
StreamEqLeftFirst(x, y) == MethodEq(x, y)

\* x == y: the method of y is asked when its class is a subclass of the
\* class of x that overrides __eq__
StreamEq(x, y) ==
    IF x.kind = "cauchy_mul" /\ y.kind = "cauchy_mul_commutative"
    THEN MethodEq(y, x)
    ELSE MethodEq(x, y)

\* hash(x): hash of a tuple as the record of the hashes of its entries,
\* hash of a frozenset as the set of the hashes of its elements with the
\* number of elements of each hash
RECURSIVE StreamHash(_)
FrozensetHash(a, b) ==
    IF StreamHash(a) = StreamHash(b)
    THEN {[hash |-> StreamHash(a),
           count |-> IF StreamEq(a, b) THEN 1 ELSE 2]}
    ELSE {[hash |-> StreamHash(a), count |-> 1],
          [hash |-> StreamHash(b), count |-> 1]}

StreamHash(x) ==
    CASE x.kind = "function" -> [type |-> x.kind]
      [] x.kind = "exact" ->
            [initial_coefficients |-> x.initial_coefficients,
             degree |-> x.degree, constant |-> x.constant]
      [] x.kind \in {"shift", "truncated"} ->
            [type |-> x.kind, series |-> StreamHash(x.series)]
      [] x.kind \in {"sub", "cauchy_mul"} ->
            [type |-> x.kind, left |-> StreamHash(x.left),
             right |-> StreamHash(x.right)]
      [] x.kind \in {"add", "cauchy_mul_commutative"} ->
            [type |-> x.kind, elements |-> FrozensetHash(x.left, x.right)]

\* what a comparison gives: a truth value or an exception
Answer(ret) == [ret |-> ret, err |-> "none"]
Throws(err) == [ret |-> FALSE, err |-> err]

\* Stream_exact.__ne__; none of the streams compared is uninitialized or a
\* Stream_zero; other._is_sparse is an attribute set by
\* Stream_inexact.__init__
ExactNe(self, other) ==
    IF IsInstance(other, self)
    THEN Answer(\/ self.degree # other.degree
                \/ self.ao # other.ao
                \/ self.initial_coefficients # other.initial_coefficients
                \/ self.constant # other.constant)
    ELSE IF "is_sparse" \notin DOMAIN other
         THEN Throws("AttributeError")
         ELSE IF other.is_sparse
              THEN Answer(\E i \in DOMAIN other.cache :
                             ExactGetItem(self, i) # other.cache[i])
              ELSE IF other.true_order
                   THEN Answer(\E i \in 1..Len(other.cache) :
                                  ExactGetItem(self, (other.ao + i) - 1)
                                      # other.cache[i])
                   ELSE Answer(other.ao > self.ao)

RECURSIVE MethodNe(_, _)

\* Stream_inexact.__ne__
InexactNe(self, other) ==
    IF other.kind \in {"exact", "shift"}
    THEN MethodNe(other, self)
    ELSE IF self.is_sparse /\ other.is_sparse
         THEN Answer(\E i \in DOMAIN self.cache :
                        /\ i \in DOMAIN other.cache
                        /\ other.cache[i] # self.cache[i])
         ELSE IF self.is_sparse \/ other.is_sparse
              THEN Answer(FALSE)
              ELSE IF \/ self.true_order /\ other.ao > self.ao
                      \/ other.true_order /\ self.ao > other.ao
                   THEN Answer(TRUE)
                   ELSE IF ~self.true_order \/ ~other.true_order
                        THEN Answer(FALSE)
                        ELSE Answer(\E i \in 1..Len(self.cache) :
                                       /\ i <= Len(other.cache)
                                       /\ self.cache[i] # other.cache[i])

\* self.__ne__(other): Stream_exact, Stream (Stream_shift), Stream_inexact
MethodNe(self, other) ==
    CASE self.kind = "exact" -> ExactNe(self, other)
      [] self.kind = "shift" -> Answer(FALSE)
      [] OTHER -> InexactNe(self, other)

\* x != y
StreamNe(x, y) == MethodNe(x, y)

\* x == y
Equal ==
    /\ ex.x \in ComparedStreams
    /\ last' = [op |-> "eq", id |-> "x", n |-> 0,
                ret |-> StreamEq(ex.x, ex.y), err |-> "none"]
    /\ UNCHANGED <<f, a0, s, w, inp, ex>>

\* hash(x) == hash(y)
HashEqual ==
    /\ ex.x \in ComparedStreams
    /\ last' = [op |-> "hash", id |-> "x", n |-> 0,
                ret |-> StreamHash(ex.x) = StreamHash(ex.y), err |-> "none"]
    /\ UNCHANGED <<f, a0, s, w, inp, ex>>

\* x != y
NotEqual ==
    /\ ex.x \in ComparedStreams
    /\ last' = [op |-> "ne", id |-> "x", n |-> 0,
                ret |-> StreamNe(ex.x, ex.y).ret,
                err |-> StreamNe(ex.x, ex.y).err]
    /\ UNCHANGED <<f, a0, s, w, inp, ex>>

InitCompare ==
    /\ f = [i \in Idx |-> 0]
    /\ a0 = 0
    /\ s = NoStream
    /\ w = NoStream
    /\ last = NoCall
    /\ inp = NoCall
    /\ ex \in [x : ComparedStreams, y : ComparedStreams]

NextCompare ==
    \/ Equal
    \/ NotEqual
    \/ HashEqual

SpecCompare == InitCompare /\ [][NextCompare]_vars

(* ------------------- claims on a Stream_function ----------------------- *)

\* the coefficient a Stream_function built from (f, a0) denotes at index n
Denoted(n) == IF n >= a0 /\ n \in Idx THEN f[n] ELSE 0

\* the least index at which the stream has a nonzero coefficient
HasOrder == \E k \in Idx : Denoted(k) # 0
TrueOrder == CHOOSE k \in Idx :
                 Denoted(k) # 0 /\ \A j \in Idx : j < k => Denoted(j) = 0

\* C1: the approximate order of a Stream_function is a lower bound: the
\* rule is zero at every index from the initial approximate order up to,
\* not including, _approximate_order.
C1_LowerBound ==
    \A k \in Idx : (a0 <= k /\ k < s.ao) => f[k] = 0

\* C1 witness: indexing has moved the approximate order of a sparse stream
\* two places up
C1_Witness ==
    /\ s.is_sparse
    /\ s.ao >= a0 + 2
    /\ last.op = "getitem"

StepMonotone(x, y) ==
    /\ y.ao >= x.ao
    /\ x.true_order => (y.true_order /\ y.ao = x.ao)

\* C3: along every step, _approximate_order of the stream and of a
\* Stream_truncated over it never decreases, _true_order never goes back to
\* False, and once _true_order holds _approximate_order stays.
C3_Monotone ==
    [][/\ StepMonotone(s, s')
       /\ (w.kind = "truncated" /\ w'.kind = "truncated")
             => StepMonotone(w, w')]_vars

\* C3 witness: a sparse Stream_truncated whose order was refined by an
\* access and is now the true order
C3_Witness ==
    /\ w.kind = "truncated"
    /\ w.is_sparse
    /\ w.true_order
    /\ w.ao >= 2
    /\ last.id = "w"
    /\ last.op = "getitem"

\* C4: every request s[n], on the sparse and on the dense stream alike,
\* returns f(n) for n >= a0 and 0 for n < a0.
C4_SparseDenseAgree ==
    (last.op = "getitem" /\ last.id = "s") => last.ret = Denoted(last.n)

\* C4 witness: the dense stream returned a nonzero coefficient above its
\* order, after an index below a0 could have been asked
C4_Witness ==
    /\ ~s.is_sparse
    /\ last.op = "getitem"
    /\ last.id = "s"
    /\ last.ret # 0
    /\ last.n > s.ao
    /\ a0 > 0

\* C6: order() returns the least index with a nonzero coefficient and
\* leaves _true_order set and _approximate_order equal to it; a later
\* order() returns it and changes nothing.
C6_Order ==
    /\ []((last.op = "order" /\ last.id = "s") =>
            /\ last.ret = TrueOrder
            /\ s.true_order
            /\ s.ao = last.ret)
    /\ [][(s.true_order /\ last'.op = "order" /\ last'.id = "s") =>
            (s' = s /\ last'.ret = s.ao)]_vars

\* C6 witness: order() returned on a sparse stream that had cached values
\* above a zero at its approximate order
C6_Witness ==
    /\ last.op = "order"
    /\ last.id = "s"
    /\ s.is_sparse
    /\ last.ret > a0
    /\ Cardinality(DOMAIN s.cache) >= 2

(* ------------- claims on scalar multiples, negatives and shifts -------- *)

\* the coefficient the operator stream w denotes at index n
WrapDenoted(n) ==
    CASE w.kind = "rmul" -> Mul(w.scalar, Denoted(n))
      [] w.kind = "lmul" -> Mul(Denoted(n), w.scalar)
      [] w.kind = "neg" -> Neg(Denoted(n))
      [] w.kind \in {"shift", "truncated"} -> Denoted(n - w.shift)

\* C2: whenever _true_order is True, the coefficient at _approximate_order
\* is nonzero and every coefficient below it is zero: for the stream
\* itself and for a Stream_rmul, Stream_lmul, Stream_neg or Stream_shift
\* that took the flag from it, over a ring with zero divisors.
C2_TrueOrder ==
    /\ s.true_order =>
          /\ Denoted(s.ao) # 0
          /\ \A k \in Idx : k < s.ao => Denoted(k) = 0
    /\ (w.kind \in {"rmul", "lmul", "neg", "shift"} /\ w.true_order) =>
          /\ WrapDenoted(Force(World, "w").W.w.ao) # 0
          /\ \A k \in WrapIdx :
                k < Force(World, "w").W.w.ao => WrapDenoted(k) = 0

(* ----------------------- claims on Stream_exact ------------------------ *)

\* the coefficient at n of the sequence that an argument tuple describes:
\* the entries from the order on, zeros up to the degree, the constant
\* from the degree on
InputDenoted(in, n) ==
    LET c == IF in.constant.given THEN in.constant.v ELSE 0
        o == IF in.order.given THEN in.order.v ELSE 0
        len == Len(in.initial_coefficients)
        d == IF in.degree.given THEN in.degree.v ELSE o + len
    IN  IF n >= d
        THEN c
        ELSE IF n >= o /\ n < o + len
             THEN in.initial_coefficients[(n - o) + 1]
             ELSE 0

\* the argument tuple describes the zero sequence
AllZero(in) ==
    /\ \A i \in 1..Len(in.initial_coefficients) :
          in.initial_coefficients[i] = 0
    /\ (in.constant.given => in.constant.v = 0)

\* the degree, when given, is not below order + len(initial_coefficients)
DegreeFits(in) ==
    in.degree.given =>
        (IF in.order.given THEN in.order.v ELSE 0)
            + Len(in.initial_coefficients) <= in.degree.v

\* C7: two accepted argument tuples give streams that compare equal
\* exactly when they describe the same coefficient sequence, so that
\* differently padded inputs have the same initial coefficients,
\* approximate order, degree and constant.
C7_CanonicalForm ==
    (ex.a.kind = "exact" /\ ex.b.kind = "exact" /\ last.op = "init") =>
        (ExactEq(ex.a, ex.b)
           <=> \A n \in ExactIdx :
                  InputDenoted(inp.a, n) = InputDenoted(inp.b, n))

C7_Witness ==
    /\ ex.a.kind = "exact"
    /\ ex.b.kind = "exact"
    /\ last.op = "init"
    /\ ExactEq(ex.a, ex.b)
    /\ inp.a.initial_coefficients # inp.b.initial_coefficients
    /\ inp.a.order # inp.b.order
    /\ inp.a.degree.given # inp.b.degree.given
    /\ ex.a.constant # 0
    /\ ex.a.initial_coefficients # <<>>

\* C8: an accepted stream returns at every index the coefficient its
\* arguments describe, and order() returns the least index with a nonzero
\* coefficient.
C8_Normalisation ==
    /\ (last.op = "getitem" /\ last.id = "a") =>
          last.ret = InputDenoted(inp.a, last.n)
    /\ (last.op = "order" /\ last.id = "a") =>
          /\ InputDenoted(inp.a, last.ret) # 0
          /\ \A k \in ExactIdx : k < last.ret => InputDenoted(inp.a, k) = 0

C8_Witness ==
    /\ last.op = "getitem"
    /\ last.id = "a"
    /\ last.ret # 0
    /\ last.n >= ex.a.degree
    /\ inp.a.initial_coefficients # <<>>
    /\ inp.a.initial_coefficients[1] = 0
    /\ Len(ex.a.initial_coefficients) + 2 <= Len(inp.a.initial_coefficients)
    /\ ex.a.initial_coefficients # <<>>

\* C9: the stream rebuilt from the coefficients of s at order-2, ...,
\* degree+4, anchored at order-2 with the constant of s, compares equal
\* to s.
C9_Idempotence ==
    last.op = "rebuild" =>
        /\ ex.b.kind = "exact"
        /\ ExactEq(ex.b, ex.a)

C9_Witness ==
    /\ last.op = "rebuild"
    /\ ex.a.constant # 0
    /\ ex.a.initial_coefficients # <<>>
    /\ ex.a.degree > ex.a.ao + Len(ex.a.initial_coefficients)
    /\ ExactEq(ex.b, ex.a)

\* C10: the construction of a Stream_exact raises exactly when its
\* arguments describe the zero sequence, and an accepted stream has a
\* nonzero coefficient.
C10_FailsIffZero ==
    ex.a # NoStream =>
        /\ ex.a.kind = "error" <=> AllZero(inp.a)
        /\ ex.a.kind = "exact" =>
              \E n \in ExactIdx : ExactGetItem(ex.a, n) # 0

\* C10, amended: among the arguments whose degree is omitted or at least
\* order + len(initial_coefficients), the construction raises exactly
\* when they describe the zero sequence; every other argument tuple is
\* rejected; an accepted stream has a nonzero coefficient.
C10_FailsIffZeroOrShortDegree ==
    ex.a # NoStream =>
        /\ ex.a.kind = "error" <=> (AllZero(inp.a) \/ ~DegreeFits(inp.a))
        /\ ex.a.kind = "exact" =>
              \E n \in ExactIdx : ExactGetItem(ex.a, n) # 0

C10_Witness ==
    /\ ex.a.kind = "error"
    /\ DegreeFits(inp.a)
    /\ AllZero(inp.a)
    /\ Len(inp.a.initial_coefficients) >= 2
    /\ inp.a.degree.given

(* ----------------------- claims on failing accesses -------------------- *)

C11_TruncatedOrder ==
    w.kind = "truncated" =>
        /\ \A n \in WrapIdx :
              (inp.n <= n /\ n < w.ao) => WrapDenoted(n) = 0
        /\ w.true_order => (inp.n <= w.ao /\ WrapDenoted(w.ao) # 0)

\* C12: the cache of a Stream_truncated is the cache object of its source,
\* after construction, after accesses and after a save and restore.
C12_CacheShared ==
    w.kind = "truncated" => w.shares

(* ------------------------ claims on save and restore ------------------- *)

\* C13: the copy restored from a saved stream returns at every index the
\* coefficient the original returns; the cache of a restored dense stream
\* is empty and its generator first produces the coefficient at the
\* restored _approximate_order.
C13_RoundTrip ==
    [][last'.op = "restore" =>
          /\ \A n \in Idx :
                GetItem([s |-> s', w |-> w'], "s", n).ret
                    = GetItem(World, "s", n).ret
          /\ w # NoStream =>
                \A n \in WrapIdx :
                   n <= LastIndex(World, "w") =>
                      GetItem([s |-> s', w |-> w'], "w", n).ret
                          = GetItem(World, "w", n).ret
          /\ ~s.is_sparse =>
                /\ s'.cache = <<>>
                /\ s'.ao = s.ao
                /\ s'.ao \in Idx =>
                      NextCoefficient([s |-> s', w |-> w'], "s").ret
                          = Denoted(s'.ao)]_vars

C13_Witness ==
    /\ last.op = "restore"
    /\ ~s.is_sparse
    /\ s.true_order
    /\ s.ao >= 2
    /\ s.cache = <<>>
    /\ \E n \in Idx : n > s.ao /\ Denoted(n) # 0

(* --------------------- claims on infinite operators -------------------- *)

\* the valuation of a factor: the least index with a nonzero coefficient
Valuation(p) ==
    CHOOSE n \in OpIdx :
        p.coef[n] # 0 /\ \A j \in OpIdx : j < n => p.coef[j] = 0

\* the valuations of the factors that are not Stream_zero increase weakly
WeaklyIncreasing(fs) ==
    \A i, j \in 1..Len(fs) :
        (i < j /\ fs[i].kind # "zero" /\ fs[j].kind # "zero") =>
            Valuation(fs[i]) <= Valuation(fs[j])

\* the iterator yields a factor that is not Stream_zero
HasFactor(fs) == \E i \in 1..Len(fs) : fs[i].kind # "zero"

\* the series of a factor
SeriesOf(p) == IF p.kind = "zero" THEN [n \in OpIdx |-> 0] ELSE p.coef

\* the direct accumulation of the first k factors: their sum, or the
\* product of the series 1 + p
RECURSIVE Accumulate(_, _, _)
Accumulate(kind, fs, k) ==
    IF k = 0
    THEN IF kind = "infinite_sum" THEN [n \in OpIdx |-> 0] ELSE One
    ELSE IF kind = "infinite_sum"
         THEN SeriesAdd(Accumulate(kind, fs, k - 1), SeriesOf(fs[k]))
         ELSE SeriesMul(Accumulate(kind, fs, k - 1),
                        SeriesAdd(One, SeriesOf(fs[k])))

\* C14 as stated, over every iterator: over factors of weakly increasing
\* valuations, every request of an infinite sum returns the sum of the
\* coefficients of all factors.
C14_InfiniteSumAnyIterator ==
    (/\ last.op = "getitem"
     /\ ex.kind = "infinite_sum"
     /\ WeaklyIncreasing(inp)) =>
        /\ last.err = "none"
        /\ last.ret = Accumulate(ex.kind, inp, Len(inp))[last.n]

\* C14: over an iterator that yields a factor other than Stream_zero, the
\* valuations of its factors increasing weakly, every request of an infinite
\* sum returns the sum of the n-th coefficients of all factors.
C14_InfiniteSum ==
    (/\ last.op = "getitem"
     /\ ex.kind = "infinite_sum"
     /\ HasFactor(inp)
     /\ WeaklyIncreasing(inp)) =>
        /\ last.err = "none"
        /\ last.ret = Accumulate(ex.kind, inp, Len(inp))[last.n]

\* a request on a sum of three factors of one valuation, the last of
\* approximate order below its valuation, has returned their sum
C14_Witness ==
    /\ last.op = "getitem"
    /\ last.err = "none"
    /\ ex.kind = "infinite_sum"
    /\ Len(inp) = 3
    /\ WeaklyIncreasing(inp)
    /\ \A i \in 1..3 : inp[i].kind = "term" /\ inp[i].coef[last.n] = 1
    /\ inp[3].coef[last.n - 1] = 0
    /\ ex.op_iter = 3
    /\ last.ret = 3

\* C15: over an iterator that yields a factor other than Stream_zero, the
\* valuations of its factors increasing weakly (negative ones included), every
\* request of an infinite product returns the coefficient of the product of
\* all 1 + p.
C15_InfiniteProduct ==
    (/\ last.op = "getitem"
     /\ ex.kind = "infinite_product"
     /\ HasFactor(inp)
     /\ WeaklyIncreasing(inp)) =>
        /\ last.err = "none"
        /\ last.ret = Accumulate(ex.kind, inp, Len(inp))[last.n]

\* C16 as stated: after N calls of _advance on a fresh stream the running
\* result is the direct accumulation of the first N factors.
C16_AdvanceCount ==
    (last.op = "advance" /\ last.err = "none" /\ last.n <= Len(inp)) =>
        \A n \in OpIdx : ex.cur[n] = Accumulate(ex.kind, inp, last.n)[n]

\* C16: after N calls of _advance on a fresh stream the running result is
\* the direct accumulation of the factors pulled from the iterator so far,
\* which are more than N unless the iterator is exhausted.
C16_AdvancePulled ==
    (last.op = "advance" /\ last.err = "none") =>
        /\ \A n \in OpIdx :
              ex.cur[n] = Accumulate(ex.kind, inp, ex.op_iter)[n]
        /\ ex.op_iter > last.n \/ ex.cur_order = Infinity

\* one call of _advance on a product has pulled two factors, and the running
\* result differs from the accumulation of the first factor alone
C16_Witness ==
    /\ last.op = "advance"
    /\ last.err = "none"
    /\ last.n = 1
    /\ ex.kind = "infinite_product"
    /\ ex.op_iter = 2
    /\ inp[1].kind = "term"
    /\ inp[2].kind = "term"
    /\ \E n \in OpIdx : ex.cur[n] # Accumulate(ex.kind, inp, 1)[n]

\* the last factor pulled by a call of _advance before its loop starts: the
\* first factor other than Stream_zero on a fresh stream
AdvanceStart(op, fs) ==
    IF ~op.cur_none
    THEN op.op_iter
    ELSE IF \E i \in (op.op_iter + 1)..Len(fs) : fs[i].kind # "zero"
         THEN CHOOSE i \in (op.op_iter + 1)..Len(fs) :
                 /\ fs[i].kind # "zero"
                 /\ \A j \in (op.op_iter + 1)..(i - 1) : fs[j].kind = "zero"
         ELSE Len(fs)

\* the boundary _cur_order with which the loop of _advance starts
AdvanceBoundary(op, fs) ==
    IF ~op.cur_none
    THEN op.cur_order
    ELSE IF \E i \in (op.op_iter + 1)..Len(fs) : fs[i].kind # "zero"
         THEN fs[AdvanceStart(op, fs)].ao
         ELSE MinusInfinity

\* the factor p is not Stream_zero and has a nonzero coefficient below b
BelowBoundary(p, b) ==
    /\ p.kind # "zero"
    /\ \E j \in OpIdx : j < b /\ p.coef[j] # 0

\* C17: a call of _advance raises ValueError exactly when a factor it pulls
\* in its loop is not Stream_zero and has a nonzero coefficient at an index
\* below _cur_order.
C17_ValueError ==
    [][last'.op = "advance" =>
          (last'.err = "ValueError" <=>
              \E k \in (AdvanceStart(ex, inp) + 1)..ex'.op_iter :
                  BelowBoundary(inp[k], AdvanceBoundary(ex, inp)))]_vars

\* a call of _advance has raised ValueError
C17_WitnessRaised ==
    /\ last.op = "advance"
    /\ last.err = "ValueError"
    /\ BelowBoundary(inp[ex.op_iter], ex.cur_order)

(* ------------------------ claims on is_uninitialized -------------------- *)

\* no call of is_uninitialized is running
CallReturned == ex.stack = <<>>

\* C18: on every graph of streams, cycles through placeholders included,
\* every call of is_uninitialized returns, and once it has returned every
\* _initializing flag is False.
C18_Terminates ==
    /\ [](CallReturned => \A v \in Nodes : ~ex.initializing[v])
    /\ (~CallReturned) ~> CallReturned

\* a call on a placeholder has returned, in a graph where that placeholder
\* and a second one are each the target of the other through a binary stream
C18_Witness ==
    /\ CallReturned
    /\ last.op = "is_uninitialized"
    /\ last.n = 2
    /\ inp[1].kind = "uninitialized"
    /\ inp[1].target = 2
    /\ inp[2].kind = "uninitialized"
    /\ inp[2].target = 3
    /\ inp[3] = BinaryNode(1, 2)
    /\ last.ret = 0

(* ---------------------- claims on Stream_cauchy_invert ------------------ *)

\* the coefficient at index p of the Cauchy product of the operand with the
\* coefficients of the inverse in cache, the orders of the two taken as 0
RECURSIVE ProductCoefficient(_, _, _)
ProductCoefficient(cache, p, k) ==
    IF k > p
    THEN 0
    ELSE Add(Mul(SeriesGetItem(SeriesOrder + k), cache[(p - k) + 1]),
             ProductCoefficient(cache, p, k + 1))

\* C19: for an operand of order v whose leading coefficient is a unit, every
\* request on h = Stream_cauchy_invert(g) returns, h is zero below -v, and
\* the Cauchy product of g with the coefficients of h from -v on is 1 at
\* index 0 and 0 at every other index, whatever the order of the requests.
C19_CauchyInverse ==
    (/\ ex # NoStream
     /\ ~ex.given
     /\ IsUnit(SeriesGetItem(SeriesOrder))) =>
        /\ last.op = "getitem" =>
              /\ last.err = "none"
              /\ ex.ao = 0 - SeriesOrder
              /\ last.ret = IF last.n < ex.ao
                            THEN 0
                            ELSE ex.cache[(last.n - ex.ao) + 1]
        /\ \A p \in 0..(Len(ex.cache) - 1) :
              ProductCoefficient(ex.cache, p, 0) = IF p = 0 THEN 1 ELSE 0

\* four coefficients of the inverse of an operand of nonzero order with
\* two nonzero coefficients are known, the last request below the order
C19_Witness ==
    /\ ex # NoStream
    /\ ~ex.given
    /\ SeriesOrder # 0
    /\ SeriesGetItem(SeriesOrder) = 5
    /\ SeriesGetItem(SeriesOrder + 1) # 0
    /\ Len(ex.cache) >= 4
    /\ ex.cache[3] # 0
    /\ last.op = "getitem"
    /\ last.n < ex.ao

(* -------------------- claims on Stream_dirichlet_invert ----------------- *)

\* the coefficient at index k that the Dirichlet inverse w has computed and
\* cached
Computed(k) ==
    IF w.is_sparse
    THEN k \in DOMAIN w.cache
    ELSE k >= w.ao /\ (k - w.ao) + 1 <= Len(w.cache)
CachedCoefficient(k) ==
    IF w.is_sparse THEN w.cache[k] ELSE w.cache[(k - w.ao) + 1]

\* the coefficient at n of the Dirichlet product of the operand with the
\* computed coefficients of w: the sum over the divisors k of n, from k on
RECURSIVE DirichletProduct(_, _)
DirichletProduct(n, k) ==
    IF k > n
    THEN 0
    ELSE IF n % k # 0 \/ Denoted(n \div k) = 0
         THEN DirichletProduct(n, k + 1)
         ELSE Add(Mul(Denoted(n \div k), CachedCoefficient(k)),
                  DirichletProduct(n, k + 1))

\* every coefficient of w that the product at n needs is computed
ProductComputed(n) ==
    \A k \in 1..n : (n % k = 0 /\ Denoted(n \div k) # 0) => Computed(k)

\* the Moebius function at 1..9, in the ring
Moebius == <<1, Neg(1), Neg(1), 0, Neg(1), 1, Neg(1), 0, 0>>

C21_EagerCheck ==
    [][(/\ last'.op = "getitem"
        /\ last'.id = "w"
        /\ w.kind = "dirichlet_invert"
        /\ w.lazy
        /\ Denoted(1) = 0) =>
          /\ last'.err = "ZeroDivisionError"
          /\ w'.lazy
          /\ ~w'.true_order
          /\ w'.cache = w.cache]_vars

(* ----------------------- claims on the binary streams -------------------- *)

\* the sum over the divisors k of n, from k on, of l[k]*r[n/k] for the
\* functions of the two operands
RECURSIVE DivisorSum(_, _)
DivisorSum(n, k) ==
    IF k > n
    THEN 0
    ELSE IF n % k # 0
         THEN DivisorSum(n, k + 1)
         ELSE Add(Mul(OperandCoefficient(inp.l, k),
                      OperandCoefficient(inp.r, n \div k)),
                  DivisorSum(n, k + 1))

\* sigma(n), the sum of the divisors of n, for n = 1..9, in the ring
Sigma == <<1, 3, 4, 7 % RingMod, 6 % RingMod, 12 % RingMod, 8 % RingMod,
           15 % RingMod, 13 % RingMod>>

C23_ValueErrorIffOrder ==
    (/\ ex.kind = "dirichlet_convolve"
     /\ last.op = "getitem"
     /\ last.id = "h") =>
        (last.err = "ValueError" <=>
            \/ OperandCoefficient(inp.l, 0) # 0
            \/ OperandCoefficient(inp.r, 0) # 0)

\* C24: every request h[n] on h = Stream_add(l, r) returns l[n] + r[n] and
\* on h = Stream_sub(l, r) returns l[n] - r[n], in any order of the requests
\* and with repetitions, sparse or dense, also where leading terms cancel.
C24_AddSub ==
    (/\ ex.kind \in {"add", "sub"}
     /\ last.op = "getitem"
     /\ last.id = "h") =>
        /\ last.err = "none"
        /\ ex.kind = "add" =>
              last.ret = Add(OperandCoefficient(inp.l, last.n),
                             OperandCoefficient(inp.r, last.n))
        /\ ex.kind = "sub" =>
              last.ret = Add(OperandCoefficient(inp.l, last.n),
                             Neg(OperandCoefficient(inp.r, last.n)))

\* a dense sum whose terms at 0 cancel returned a nonzero coefficient at 1
\* after the approximate order had moved past 0
C24_Witness ==
    /\ ex.kind = "add"
    /\ ~ex.is_sparse
    /\ inp.l.coef[0] = 5
    /\ inp.r.coef[0] = 1
    /\ ex.ao >= 1
    /\ last.op = "getitem"
    /\ last.id = "h"
    /\ last.n = 1
    /\ last.ret # 0

(* ------------------------ claims on the comparisons ---------------------- *)

\* the indices at which the compared streams may differ
CompareIdx == (0 - 2)..3

\* the binary stream with the operands of x exchanged
Swapped(x) == [x EXCEPT !.left = x.right, !.right = x.left]

\* C25: Stream_add(a, b) == Stream_add(b, a) and the two have equal hashes,
\* likewise for Stream_cauchy_mul_commutative, whereas Stream_sub(a, b) ==
\* Stream_sub(b, a) and Stream_cauchy_mul(a, b) == Stream_cauchy_mul(b, a)
\* hold only when a == b.
C25_Commutative ==
    (/\ ex.x.kind \in BinaryTypes
     /\ ex.y = Swapped(ex.x)) =>
        /\ (last.op = "eq" /\ ex.x.kind \in {"add", "cauchy_mul_commutative"})
              => last.ret
        /\ (last.op = "hash"
            /\ ex.x.kind \in {"add", "cauchy_mul_commutative"}) => last.ret
        /\ (last.op = "eq" /\ ex.x.kind \in {"sub", "cauchy_mul"}
            /\ last.ret) => StreamEq(ex.x.left, ex.x.right)

\* a sum of two different streams was compared with the sum of the same
\* streams in the other order
C25_Witness ==
    /\ ex.x.kind = "add"
    /\ ex.y = Swapped(ex.x)
    /\ ~StreamEq(ex.x.left, ex.x.right)
    /\ last.op = "eq"
    /\ last.ret

\* the coefficient at n of the series a compared stream stands for
RECURSIVE CoefficientAt(_, _)
CoefficientAt(x, n) ==
    CASE x.kind = "function" ->
            IF n >= x.ao /\ n \in DOMAIN x.fn THEN x.fn[n] ELSE 0
      [] x.kind = "exact" -> ExactGetItem(x, n)
      [] x.kind = "shift" -> CoefficientAt(x.series, n - x.shift)
      [] x.kind = "truncated" ->
            IF n >= x.ao THEN CoefficientAt(x.series, n - x.shift) ELSE 0
      [] x.kind = "add" ->
            Add(CoefficientAt(x.left, n), CoefficientAt(x.right, n))
      [] x.kind = "sub" ->
            Add(CoefficientAt(x.left, n), Neg(CoefficientAt(x.right, n)))
      [] x.kind \in {"cauchy_mul", "cauchy_mul_commutative"} ->
            Add(Mul(CoefficientAt(x.left, 0), CoefficientAt(x.right, n)),
                Mul(CoefficientAt(x.left, 1), CoefficientAt(x.right, n - 1)))

\* C27: x != y is True only if the coefficients of x and y differ at some
\* index, and it raises no exception.
C27_NeSound ==
    last.op = "ne" =>
        /\ last.err = "none"
        /\ last.ret =>
              \E n \in CompareIdx :
                  CoefficientAt(ex.x, n) # CoefficientAt(ex.y, n)

\* C28: x == y is True only if the coefficients of x and y agree at every
\* index, in particular for two Stream_function with the same function and
\* different approximate orders and for two Stream_truncated over the same
\* stream with the same shift and different minimal valuations.
C28_EqSound ==
    (last.op = "eq" /\ last.ret) =>
        \A n \in CompareIdx : CoefficientAt(ex.x, n) = CoefficientAt(ex.y, n)

(* ------------------------- claims on the derivative ---------------------- *)

\* C26: once computed, the _approximate_order of a Stream_derivative is a
\* lower bound: (n+1)...(n+k) * source[n+k] is zero at every n below it, for
\* a source of negative approximate order, of approximate order in [0, k]
\* and above k; and every d[n] is (n+1)...(n+k) * source[n+k].
C26_Derivative ==
    /\ ~ex.lazy =>
          \A n \in DerivativeRequests :
              n < ex.ao =>
                  Mul(IntoRing(RisingProduct(n, ex.shift)),
                      OperandCoefficient(inp, n + ex.shift)) = 0
    /\ (last.op = "getitem" /\ last.id = "d") =>
          last.ret = Mul(IntoRing(RisingProduct(last.n, ex.shift)),
                         OperandCoefficient(inp, last.n + ex.shift))

\* the order of the second derivative was computed as 0 from a source of
\* approximate order 1 or 2, and d[0] is nonzero
C26_Witness ==
    /\ ~ex.lazy
    /\ ex.ao = 0
    /\ ex.shift = 2
    /\ inp.ao \in {1, 2}
    /\ last.op = "getitem"
    /\ last.id = "d"
    /\ last.n = 0
    /\ last.ret # 0

\* C29: is_nonzero() returns True only if the stream has a nonzero
\* coefficient; on the Stream_function it returns True exactly when a
\* nonzero value is in the cache; the Stream_derivative answers from its
\* operand.
C29_IsNonzeroSound ==
    /\ (last.op = "is_nonzero" /\ last.id = "series") =>
          /\ last.ret <=> \E i \in DOMAIN inp.cache : inp.cache[i] # 0
          /\ last.ret => \E n \in SourceIdx : OperandCoefficient(inp, n) # 0
    /\ (last.op = "is_nonzero" /\ last.id = "d" /\ last.ret) =>
          \E n \in DerivativeRequests :
              Mul(IntoRing(RisingProduct(n, ex.shift)),
                  OperandCoefficient(inp, n + ex.shift)) # 0

(* -------------------- claims on _advance and __getitem__ ----------------- *)

\* C30: a call of _advance that returns leaves _cur_order strictly greater
\* than before, or at +infinity with _cur unchanged when it was +infinity
\* before; a request op[n] that returns does so with n < _cur_order and
\* gives the coefficient of _cur.
C30_AdvanceProgress ==
    [][/\ (last'.op = "advance" /\ last'.err = "none") =>
             \/ ex'.cur_order > ex.cur_order
             \/ /\ ex.cur_order = Infinity
                /\ ex'.cur_order = Infinity
                /\ ex'.cur = ex.cur
       /\ (last'.op = "getitem" /\ last'.err = "none") =>
             /\ last'.n < ex'.cur_order
             /\ ex'.cur_order >= ex.cur_order
             /\ last'.ret = ex'.cur[last'.n]]_vars

\* _advance was called and returned after the iterator had been found
\* exhausted by an earlier call
C30_Witness ==
    /\ last.op = "advance"
    /\ last.err = "none"
    /\ Len(inp) >= 1
    /\ last.n >= Len(inp) + 2
    /\ ex.cur_order = Infinity

(* ------------------- order() as a loop that runs step by step ---------- *)

\* no call of order() is running
Idle == [pc |-> "idle", id |-> "s", n |-> 0]

\* the call of order() on the stream id has reached its loop at index n
Looping(id, n) == [pc |-> "loop", id |-> id, n |-> n]

\* what one round of the loop of order() comes to: the call returns ret or
\* raises err (on = FALSE), or goes on to the index ret (on = TRUE)
OrderReturn(r) == [W |-> r.W, ret |-> r.ret, err |-> r.err, on |-> FALSE]
OrderOn(W, n) == [W |-> W, ret |-> n, err |-> "none", on |-> TRUE]

\* the state after the round that came to r
OrderRan(id, r) ==
    /\ s' = r.W.s
    /\ w' = r.W.w
    /\ last' = IF r.on THEN last ELSE Call("order", id, 0, r)
    /\ ex' = IF r.on THEN Looping(id, r.ret) ELSE Idle
    /\ UNCHANGED <<f, a0, inp>>

\* s.order() or w.order() is called: "if self._true_order: return
\* self._approximate_order", else the loop starts at _approximate_order
OrderCall(id) ==
    /\ ex = Idle
    /\ World[id] # NoStream
    /\ OrderRan(id, IF World[id].true_order
                    THEN OrderReturn(Ret(World, World[id].ao))
                    ELSE OrderOn(World, World[id].ao))

\* OrderRoundInexact with the test of the loop inverted: "while self[n]"
OrderRoundInverted(W, id, n) ==
    LET Got(r) ==
            IF r.err # "none"
            THEN OrderReturn(r)
            ELSE IF r.ret = 0
                 THEN OrderReturn(Ret(r.W, n))
                 ELSE OrderOn(r.W, n + 1)
    IN  Got(GetItem(W, id, n))

\* one round of "while not self[n]: n += 1" of Stream_inexact.order
OrderRoundInexact(W, id, n) ==
    LET Got(r) ==
            IF r.err # "none"
            THEN OrderReturn(r)
            ELSE IF r.ret # 0
                 THEN OrderReturn(Ret(r.W, n))
                 ELSE OrderOn(r.W, n + 1)
    IN  Got(GetItem(W, id, n))

\* one round of the sparse loop of Stream_truncated.order
OrderRoundTruncated(W, id, n) ==
    IF (n - W[id].shift) \in DOMAIN W.s.cache
    THEN IF W.s.cache[n - W[id].shift] # 0
         THEN OrderReturn(Ret([W EXCEPT ![id].ao = n,
                                        ![id].true_order = TRUE], n))
         ELSE OrderOn(W, n + 1)
    ELSE OrderRoundInexact(W, id, n)

\* one round of the loop of self.order(), on the class of the stream
OrderRound(W, id, n) ==
    IF W[id].kind = "truncated" /\ W[id].is_sparse
    THEN OrderRoundTruncated(W, id, n)
    ELSE OrderRoundInexact(W, id, n)

\* the running call of order() makes one round of its loop.  The rule of
\* the stream is zero past the last modelled index, where the counter of
\* the loop is kept
OrderStep ==
    /\ ex.pc = "loop"
    /\ ex.n <= LastIndex(World, ex.id)
    /\ OrderRan(ex.id, OrderRound(World, ex.id, ex.n))

\* s[n] between two calls of order()
IndexIdle(n) ==
    /\ ex = Idle
    /\ Index(n)

\* w = Stream_truncated(s, shift, minimal_valuation) between two calls
TruncateIdle(shift, minimal_valuation) ==
    /\ ex = Idle
    /\ w = NoStream
    /\ w' = StreamTruncated(s, shift, minimal_valuation)
    /\ last' = Call("init", "w", 0, Ret(World, 0))
    /\ UNCHANGED <<f, a0, s, inp, ex>>

\* w[n] between two calls of order()
IndexWrapperIdle(n) ==
    /\ ex = Idle
    /\ IndexWrapper(n)

InitOrder ==
    /\ f \in [Idx -> {0, 1}]
    /\ a0 \in InitOrders
    /\ \E is_sparse \in BOOLEAN : s = StreamFunction(is_sparse, a0)
    /\ w = NoStream
    /\ last = NoCall
    /\ inp = NoCall
    /\ ex = Idle

NextOrder ==
    \/ \E n \in Idx : IndexIdle(n)
    \/ \E k \in TruncShifts, m \in MinValuations : TruncateIdle(k, m)
    \/ \E n \in WrapIdx : IndexWrapperIdle(n)
    \/ \E id \in {"s", "w"} : OrderCall(id)
    \/ OrderStep

\* the position of the running call of order() moves: in NextOrder only
\* OrderStep does that, and it is possible whenever OrderStep is
OrderTurn ==
    /\ ex.pc = "loop"
    /\ ex.n <= LastIndex(World, ex.id)
    /\ ex' \in {Idle, Looping(ex.id, ex.n + 1)}

\* a call of order() that has started goes on running: the program has one
\* thread, which is in the loop
SpecOrder == InitOrder /\ [][NextOrder]_vars /\ WF_ex(OrderTurn)

(* ---------------------- claims on order() as a loop -------------------- *)

\* the coefficient the stream id denotes at index n
DenotedBy(id, n) == IF id = "s" THEN Denoted(n) ELSE WrapDenoted(n)

\* the stream id has a nonzero coefficient at or after its approximate
\* order
NonzeroAhead(id) ==
    \E n \in World[id].ao..LastIndex(World, id) : DenotedBy(id, n) # 0

\* C31: order() on an inexact stream (sparse, dense or Stream_truncated)
\* terminates if the stream has a nonzero coefficient at some index at or
\* after its approximate order, and never returns and never raises if all
\* its coefficients are zero.
C31_OrderTerminates ==
    /\ (ex.pc = "loop" /\ NonzeroAhead(ex.id)) ~> (ex = Idle)
    /\ [][(ex.pc = "loop" /\ ~NonzeroAhead(ex.id)) => ex'.pc = "loop"]_vars

\* order() of a wrapper all of whose coefficients are zero has searched
\* every modelled index and is still running
C31_Witness ==
    /\ ex.pc = "loop"
    /\ ex.id = "w"
    /\ ex.n > LastIndex(World, "w")
    /\ \A n \in Idx : f[n] = 0

(* ------------------ claims on the cache of a Stream_function ----------- *)

\* every value in the cache of st is the value of the function at its index
CacheRight(st) ==
    IF st.is_sparse
    THEN \A n \in DOMAIN st.cache : st.cache[n] = f[n]
    ELSE \A i \in 1..Len(st.cache) : st.cache[i] = f[st.ao + i - 1]

\* the cache new holds everything the cache old held, in the same place
CacheKept(is_sparse, old, new) ==
    IF is_sparse
    THEN \A n \in DOMAIN old : n \in DOMAIN new /\ new[n] = old[n]
    ELSE /\ Len(new) >= Len(old)
         /\ SubSeq(new, 1, Len(old)) = old

\* C32: over any sequence of accesses to one stream object, a sparse cache
\* entry once written is never overwritten or removed and a dense cache is
\* only appended to; every cached value equals the coefficient rule at its
\* index.  (A stream restored by loads(dumps(s)) is another object.)
C32_WriteOnce ==
    [][/\ last'.op # "restore" => CacheKept(s.is_sparse, s.cache, s'.cache)
       /\ CacheRight(s')]_vars

\* an element of a dense cache was read again after the cache had grown
\* past it
C32_Witness ==
    /\ ~s.is_sparse
    /\ Len(s.cache) >= 2
    /\ last.op = "getitem"
    /\ last.id = "s"
    /\ last.n >= s.ao
    /\ last.n - s.ao + 1 < Len(s.cache)

\* C33: in every reachable state of a dense inexact stream the cache is
\* empty while _true_order is False; once it is True the element at
\* position i is the coefficient at _approximate_order + i, starting with
\* the first nonzero term; after s[n] returns with n >= _approximate_order
\* the cache has at least n - _approximate_order + 1 elements.
C33_DenseLayout ==
    [][~s'.is_sparse =>
          /\ ~s'.true_order => s'.cache = <<>>
          /\ \A i \in 1..Len(s'.cache) : s'.cache[i] = Denoted(s'.ao + i - 1)
          /\ s'.cache # <<>> =>
                /\ s'.cache[1] # 0
                /\ \A k \in Idx : k < s'.ao => Denoted(k) = 0
          /\ (last'.op = "getitem" /\ last'.id = "s" /\ last'.n >= s'.ao) =>
                Len(s'.cache) >= last'.n - s'.ao + 1]_vars

\* a request past a run of zeros filled a dense cache up to its index
C33_Witness ==
    /\ ~s.is_sparse
    /\ s.true_order
    /\ s.ao > a0
    /\ last.op = "getitem"
    /\ last.id = "s"
    /\ Len(s.cache) >= 2
    /\ last.n = s.ao + Len(s.cache) - 1

\* the first index from n on that is not in cache or holds a nonzero value
FirstLater(cache, n) ==
    CHOOSE k \in n..(MaxIdx + 1) :
        /\ k \notin DOMAIN cache \/ cache[k] # 0
        /\ \A j \in n..(k - 1) : j \in DOMAIN cache /\ cache[j] = 0

\* C34: in every reachable state of a sparse inexact stream not declared
\* of true order at construction, _approximate_order is not a key of the
\* cache while _true_order is False, and every cached key below
\* _approximate_order holds zero; a zero found at the approximate order is
\* not stored but moves _approximate_order to the first later index that
\* is uncached or holds a cached nonzero value, which sets _true_order.
C34_SparseCache ==
    [][s'.is_sparse =>
          /\ ~s'.true_order => s'.ao \notin DOMAIN s'.cache
          /\ \A k \in DOMAIN s'.cache : k < s'.ao => s'.cache[k] = 0
          /\ (/\ last'.op = "getitem"
              /\ last'.id = "s"
              /\ ~s.true_order
              /\ last'.n = s.ao
              /\ last'.ret = 0) =>
                /\ s'.cache = s.cache
                /\ s'.ao = FirstLater(s.cache, s.ao + 1)
                /\ s'.true_order = (s'.ao \in DOMAIN s.cache)]_vars

\* a zero at the approximate order moved it over a cached zero onto a
\* cached nonzero value
C34_Witness ==
    /\ s.is_sparse
    /\ last.op = "getitem"
    /\ last.id = "s"
    /\ last.ret = 0
    /\ last.n \notin DOMAIN s.cache
    /\ s.ao >= last.n + 2
    /\ s.true_order

(* -------------- claims on is_uninitialized over a graph ---------------- *)

\* the streams that stream v refers to: its _target, _series, _left, _right
References(v) ==
    {inp[v].target, inp[v].series, inp[v].left, inp[v].right} \ {NoNode}

\* the streams reached from those of S by at most k references
RECURSIVE ReachedWithin(_, _)
ReachedWithin(S, k) ==
    IF k = 0
    THEN S
    ELSE ReachedWithin(S \cup UNION {References(v) : v \in S}, k - 1)

\* a Stream_uninitialized without a _target is reached from stream v
UnboundReached(v) ==
    \E u \in ReachedWithin({v}, MaxNodes) :
        inp[u].kind = "uninitialized" /\ inp[u].target = NoNode

\* C35: is_uninitialized() on a stream built from unary, binary and shift
\* streams over placeholders returns True exactly when a
\* Stream_uninitialized whose _target is not bound is reached from it
\* through the references to operands and targets, cycles included.
C35_UnboundReached ==
    (CallReturned /\ last.op = "is_uninitialized") =>
        (last.ret = 1 <=> UnboundReached(last.n))

\* the call on a placeholder that is an operand of its own target has
\* returned True: the other operand is a placeholder without a target
C35_Witness ==
    /\ CallReturned
    /\ last.op = "is_uninitialized"
    /\ last.n = 1
    /\ inp[1] = UninitializedNode(3)
    /\ inp[2] = UninitializedNode(NoNode)
    /\ inp[3] = BinaryNode(1, 2)
    /\ last.ret = 1

(* -------------------------- Stream_cauchy_compose ---------------------- *)

\* indices at which the functions of f and g may be nonzero, and the
\* indices requested of the composition
ComposeIdx == 0..(MaxIdx - 1)

\* the functions of f, among them n |-> n, and of g, among them n |-> 1
OuterFunctions == [ComposeIdx -> {0, 2}] \cup {[n \in ComposeIdx |-> n]}
InnerFunctions == [ComposeIdx -> {0, 1}]

\* the function and the approximate order f is built with: order 0, or an
\* order past the window, below which no value of the function is read
OuterShapes ==
    {c \in OuterFunctions \X {0, MaxIdx} :
        c[2] = 0 \/ \A n \in ComposeIdx : c[1][n] = 0}

\* the function and the approximate order g is built with: order 0, or
\* order 1, below which no value of the function is read
InnerShapes ==
    {c \in InnerFunctions \X {0, 1} : c[2] = 0 \/ c[1][0] = 0}

\* an operand of the composition: a sparse Stream_function of approximate
\* order a whose function is fn on ComposeIdx and zero elsewhere; a0 keeps
\* the order it was built with
ComposeOperand(fn, a) ==
    [ao |-> a, true_order |-> FALSE, cache |-> EmptyDict, coef |-> fn,
     a0 |-> a]

\* Stream_cauchy_compose.__init__ (sparse) over an operand g whose
\* _true_order is False.  The attribute _pos_powers does not exist before
\* _approximate_order is computed (lazy = TRUE); built counts the streams
\* the composition has constructed
StreamCauchyCompose ==
    [lazy |-> TRUE, ao |-> 0, true_order |-> FALSE, cache |-> EmptyDict,
     pos_powers |-> <<>>, built |-> 0]

\* self._pos_powers[1]: the operand g itself
RightEntry == [kind |-> "right"]

\* Stream_cauchy_mul(self._pos_powers[-1], self._right, self._is_sparse):
\* left is the position of its left operand in _pos_powers, serial tells
\* one constructed stream from another
PowerStream(left, serial) ==
    [kind |-> "cauchy_mul", left |-> left, lazy |-> TRUE, ao |-> 0,
     true_order |-> FALSE, cache |-> EmptyDict, serial |-> serial]

\* the result of an operation in the world C of f, g and the composition h
ComRet(C, ret) == [C |-> C, ret |-> ret, err |-> "none"]
ComFail(C, err) == [C |-> C, ret |-> 0, err |-> err]

\* self._left[n], self._right[n]
ComposeLeft(C, n) ==
    LET Then(x) == ComRet([C EXCEPT !.f = x.p], x.ret)
    IN  Then(OperandGetItem(C.f, n))
ComposeRight(C, n) ==
    LET Then(x) == ComRet([C EXCEPT !.g = x.p], x.ret)
    IN  Then(OperandGetItem(C.g, n))

\* _approximate_order of the entry k of _pos_powers, once computed
PowerOrder(C, k) == IF k = 1 THEN C.g.ao ELSE C.h.pos_powers[k].ao

\* first access to _approximate_order of the entry k of _pos_powers:
\* Stream_cauchy_mul._approximate_order, which reads that of its left
\* operand first
RECURSIVE PowerForce(_, _)
PowerForce(C, k) ==
    LET Then(D) ==
            [D EXCEPT !.h.pos_powers[k].ao =
                          PowerOrder(D, D.h.pos_powers[k].left) + D.g.ao,
                      !.h.pos_powers[k].lazy = FALSE]
    IN  IF k = 1
        THEN C
        ELSE IF ~C.h.pos_powers[k].lazy
             THEN C
             ELSE Then(PowerForce(C, C.h.pos_powers[k].left))

RECURSIVE PowerGetItem(_, _, _)

\* Stream_cauchy_mul.get_coefficient of the entry k: the sum over j from j
\* to hi, the range taken when the sum starts
RECURSIVE PowerMulSum(_, _, _, _, _, _)
PowerMulSum(C, k, n, j, hi, c) ==
    LET Mult(x, y) == PowerMulSum(y.C, k, n, j + 1, hi,
                                  Add(c, Mul(x.ret, y.ret)))
        Got(x) ==
            IF x.ret = 0
            THEN PowerMulSum(x.C, k, n, j + 1, hi, c)
            ELSE Mult(x, ComposeRight(x.C, n - j))
    IN  IF j > hi
        THEN ComRet(C, c)
        ELSE Got(PowerGetItem(C, C.h.pos_powers[k].left, j))

\* Stream_inexact.__getitem__ (sparse) on the entry k >= 2 of _pos_powers,
\* whose _approximate_order has been computed
PowerGetItemForced(C, k, n) ==
    LET Moved(r, sc) ==
            ComRet([r.C EXCEPT !.h.pos_powers[k].true_order = sc.found,
                               !.h.pos_powers[k].ao = sc.ao],
                   r.ret)
        Stored(r) == [r.C EXCEPT !.h.pos_powers[k].cache = (n :> r.ret) @@ @]
        Miss(r) ==
            IF r.C.h.pos_powers[k].true_order \/ n > r.C.h.pos_powers[k].ao
            THEN ComRet(Stored(r), r.ret)
            ELSE IF r.ret # 0
                 THEN ComRet([Stored(r) EXCEPT
                                 !.h.pos_powers[k].true_order = TRUE],
                             r.ret)
                 ELSE Moved(r, ScanSparse(r.C.h.pos_powers[k].cache,
                                          r.C.h.pos_powers[k].ao + 1))
    IN  IF n < C.h.pos_powers[k].ao
        THEN ComRet(C, 0)
        ELSE IF n \in DOMAIN C.h.pos_powers[k].cache
             THEN ComRet(C, C.h.pos_powers[k].cache[n])
             ELSE Miss(PowerMulSum(C, k, n,
                                   PowerOrder(C, C.h.pos_powers[k].left),
                                   n - C.g.ao, 0))

\* self._pos_powers[k][n]
PowerGetItem(C, k, n) ==
    IF k = 1
    THEN ComposeRight(C, n)
    ELSE PowerGetItemForced(PowerForce(C, k), k, n)

\* ComposeGrow that builds the list anew at every request
ComposeGrowAnew(C, q) ==
    [C EXCEPT !.h.pos_powers =
                  [k \in 1..(IF q > 1 THEN q ELSE 1) |->
                      IF k = 1
                      THEN RightEntry
                      ELSE PowerStream(k - 1, C.h.built + k)],
              !.h.built = @ + q]

\* "while len(self._pos_powers) <= n // gv: self._pos_powers.append(
\* Stream_cauchy_mul(self._pos_powers[-1], self._right, self._is_sparse))"
\* with q = n // gv; the Python list has the placeholder None in front
RECURSIVE ComposeGrow(_, _)
ComposeGrow(C, q) ==
    IF Len(C.h.pos_powers) >= q
    THEN C
    ELSE ComposeGrow([C EXCEPT !.h.pos_powers =
                                   Append(@, PowerStream(Len(@),
                                                         C.h.built + 1)),
                               !.h.built = @ + 1],
                     q)

\* "sum(l * self._pos_powers[k][n] for k in range(1, n // gv + 1)
\* if (l := self._left[k]))", from k on, added to c
RECURSIVE ComposeSum(_, _, _, _, _)
ComposeSum(C, n, k, hi, c) ==
    LET Mult(x, y) == ComposeSum(y.C, n, k + 1, hi,
                                 Add(c, Mul(x.ret, y.ret)))
        Got(x) ==
            IF x.ret = 0
            THEN ComposeSum(x.C, n, k + 1, hi, c)
            ELSE Mult(x, PowerGetItem(x.C, k, n))
    IN  IF k > hi
        THEN ComRet(C, c)
        ELSE Got(ComposeLeft(C, k))

\* Stream_cauchy_compose.get_coefficient for n >= 0 and an operand f of
\* approximate order >= 0 (the sum over the negative powers is empty)
ComposeGetCoefficient(C, n) ==
    LET First(D) == IF n = 0 THEN ComposeLeft(D, 0) ELSE ComRet(D, 0)
        Rest(x) == ComposeSum(x.C, n, 1, n \div C.g.ao, x.ret)
    IN  Rest(First(ComposeGrow(C, n \div C.g.ao)))

\* the lazy attribute _approximate_order of Stream_cauchy_compose
ComposeApproximateOrder(C) ==
    IF C.g.ao <= 0
    THEN ComFail(C, "ValueError")
    ELSE ComRet([C EXCEPT !.h.pos_powers = <<RightEntry>>],
                C.f.ao * C.g.ao)

\* first access to self._approximate_order of the composition
ComposeForce(C) ==
    LET Stored(r) ==
            IF r.err # "none"
            THEN r
            ELSE ComRet([r.C EXCEPT !.h.ao = r.ret, !.h.lazy = FALSE],
                        r.ret)
    IN  IF ~C.h.lazy
        THEN ComRet(C, C.h.ao)
        ELSE Stored(ComposeApproximateOrder(C))

\* the sparse branch of Stream_inexact.__getitem__ on the composition
ComposeGetItemSparse(C, n) ==
    LET Moved(r, sc) ==
            ComRet([r.C EXCEPT !.h.true_order = sc.found, !.h.ao = sc.ao],
                   r.ret)
        Stored(r) == [r.C EXCEPT !.h.cache = (n :> r.ret) @@ @]
        Miss(r) ==
            IF r.C.h.true_order \/ n > r.C.h.ao
            THEN ComRet(Stored(r), r.ret)
            ELSE IF r.ret # 0
                 THEN ComRet([Stored(r) EXCEPT !.h.true_order = TRUE], r.ret)
                 ELSE Moved(r, ScanSparse(r.C.h.cache, r.C.h.ao + 1))
    IN  IF n \in DOMAIN C.h.cache
        THEN ComRet(C, C.h.cache[n])
        ELSE Miss(ComposeGetCoefficient(C, n))

\* Stream_inexact.__getitem__ on the composition
ComposeGetItem(C, n) ==
    LET Forced(r0) ==
            IF r0.err # "none"
            THEN r0
            ELSE IF n < r0.ret
                 THEN ComRet(r0.C, 0)
                 ELSE ComposeGetItemSparse(r0.C, n)
    IN  Forced(ComposeForce(C))

\* the operands and the composition
ComWorld == [f |-> inp.f, g |-> inp.g, h |-> ex]

\* the state after a call in the world of the composition
ComCompleted(op, id, n, r) ==
    /\ inp' = [f |-> r.C.f, g |-> r.C.g]
    /\ ex' = r.C.h
    /\ last' = [op |-> op, id |-> id, n |-> n, ret |-> r.ret, err |-> r.err]
    /\ UNCHANGED <<f, a0, s, w>>

\* h[n]
IndexCompose(n) ==
    /\ n >= 0
    /\ ComCompleted("getitem", "h", n, ComposeGetItem(ComWorld, n))

\* f[n]
IndexOuter(n) ==
    /\ n \in DOMAIN inp.f.coef
    /\ ComCompleted("getitem", "f", n, ComposeLeft(ComWorld, n))

\* g[n]
IndexInner(n) ==
    /\ n \in DOMAIN inp.g.coef
    /\ ComCompleted("getitem", "g", n, ComposeRight(ComWorld, n))

InitCompose ==
    /\ f = [i \in Idx |-> 0]
    /\ a0 = 0
    /\ s = NoStream
    /\ w = NoStream
    /\ last = NoCall
    /\ \E cf \in OuterShapes, cg \in InnerShapes :
          inp = [f |-> ComposeOperand(cf[1], cf[2]),
                 g |-> ComposeOperand(cg[1], cg[2])]
    /\ ex = StreamCauchyCompose

NextCompose ==
    \/ \E n \in ComposeIdx : IndexCompose(n)
    \/ \E n \in {0} : IndexOuter(n)
    \/ \E n \in {0, 1} : IndexInner(n)

SpecCompose == InitCompose /\ [][NextCompose]_vars

(* --------------------- claims on Stream_cauchy_compose ------------------ *)

\* the coefficients the operands f and g denote at index n
OuterDenoted(n) ==
    IF n \in DOMAIN inp.f.coef /\ n >= inp.f.a0 THEN inp.f.coef[n] ELSE 0
InnerDenoted(n) ==
    IF n \in DOMAIN inp.g.coef /\ n >= inp.g.a0 THEN inp.g.coef[n] ELSE 0

\* the coefficient at n of the k-fold Cauchy power of g
RECURSIVE PowerCoefficient(_, _)
RECURSIVE PowerConvolution(_, _, _)
PowerConvolution(k, n, j) ==
    IF j > n
    THEN 0
    ELSE Add(Mul(PowerCoefficient(k - 1, j), InnerDenoted(n - j)),
             PowerConvolution(k, n, j + 1))
PowerCoefficient(k, n) ==
    IF k = 0
    THEN IF n = 0 THEN 1 ELSE 0
    ELSE PowerConvolution(k, n, 0)

\* the sum over k from k to n of f[k] times the coefficient at n of the
\* k-fold power of g
RECURSIVE ComposeValue(_, _)
ComposeValue(n, k) ==
    IF k > n
    THEN 0
    ELSE Add(Mul(OuterDenoted(k), PowerCoefficient(k, n)),
             ComposeValue(n, k + 1))

\* the approximate order of the composition, computed or not yet
ComposeOrderNow == IF ex.lazy THEN inp.f.ao * inp.g.ao ELSE ex.ao

\* the list new holds every entry of the list old, the same stream in the
\* same place
PowersKept(old, new) ==
    /\ Len(new) >= Len(old)
    /\ \A k \in 1..Len(old) :
          /\ new[k].kind = old[k].kind
          /\ k >= 2 => new[k].serial = old[k].serial

\* the entry k of list is the k-fold Cauchy power of g
PowersRight(list) ==
    \A k \in 1..Len(list) :
        IF k = 1
        THEN list[k] = RightEntry
        ELSE /\ list[k].kind = "cauchy_mul"
             /\ list[k].left = k - 1
             /\ \A n \in DOMAIN list[k].cache :
                   list[k].cache[n] = PowerCoefficient(k, n)

\* C36 as stated: over any sequence of requests _pos_powers only grows, no
\* entry is replaced or rebuilt, entry k is the k-fold Cauchy power of g,
\* and after a request for an index n >= 0 the list contains every power
\* up to n // (approximate order of g).
C36_PowersAfterAnyRequest ==
    [][/\ PowersKept(ex.pos_powers, ex'.pos_powers)
       /\ PowersRight(ex'.pos_powers)
       /\ (last'.op = "getitem" /\ last'.id = "h" /\ last'.err = "none") =>
             Len(ex'.pos_powers) >= last'.n \div inp'.g.ao]_vars

\* C36, amended: over any sequence of requests _pos_powers only grows, no
\* entry is replaced or rebuilt, entry k is the k-fold Cauchy power of g,
\* and after a request for an index n that is not below the approximate
\* order of the composition the list contains every power up to
\* n // (approximate order of g).
C36_PowersGrowOnly ==
    [][/\ PowersKept(ex.pos_powers, ex'.pos_powers)
       /\ PowersRight(ex'.pos_powers)
       /\ (/\ last'.op = "getitem"
           /\ last'.id = "h"
           /\ last'.err = "none"
           /\ last'.n >= ComposeOrderNow) =>
             Len(ex'.pos_powers) >= last'.n \div inp'.g.ao]_vars

\* a request used the second power of g, which is in the list with the
\* coefficient that was asked of it
C36_Witness ==
    /\ last.op = "getitem"
    /\ last.id = "h"
    /\ last.err = "none"
    /\ last.n >= 2
    /\ last.ret # 0
    /\ Len(ex.pos_powers) >= 2
    /\ last.n \in DOMAIN ex.pos_powers[2].cache
    /\ ex.pos_powers[2].cache[last.n] # 0

\* C37: for f of approximate order >= 0 and g of order >= 1, every request
\* h[n] with n >= 0, in any order, returns the sum over k = 0..n of f[k]
\* times the coefficient at n of the k-fold Cauchy power of g.
C37_ComposeValue ==
    [][(last'.op = "getitem" /\ last'.id = "h" /\ InnerDenoted(0) = 0) =>
          /\ last'.err = "none"
          /\ last'.ret = ComposeValue(last'.n, 0)]_vars

\* the same for an operand g whose approximate order is >= 1 when the
\* approximate order of the composition is first read
ComposeValueRight ==
    [][(last'.op = "getitem" /\ last'.id = "h" /\ last'.err = "none") =>
          last'.ret = ComposeValue(last'.n, 0)]_vars

(* ------------------- claims on __eq__ and __hash__ ---------------------- *)

\* C38: for all streams a and b, a Stream_cauchy_mul and a
\* Stream_cauchy_mul_commutative over the same operands included, a == b
\* gives what b == a gives, and hash(a) == hash(b) whenever a == b.
C38_EqSymmetricHashed ==
    /\ last.op = "eq" => last.ret = StreamEq(ex.y, ex.x)
    /\ (last.op = "hash" /\ StreamEq(ex.x, ex.y)) => last.ret = TRUE

\* a Stream_cauchy_mul has been compared with a
\* Stream_cauchy_mul_commutative over the same two operands
C38_Witness ==
    /\ last.op = "eq"
    /\ ex.x.kind = "cauchy_mul"
    /\ ex.y.kind = "cauchy_mul_commutative"
    /\ ex.x.left = ex.y.left
    /\ ex.x.right = ex.y.right
    /\ ex.x.left # ex.x.right
    /\ last.ret = FALSE

(* ------------------------------ is_nonzero ------------------------------ *)

\* any(lst)
AnyOf(lst) == \E i \in 1..Len(lst) : lst[i] # 0

\* Stream_inexact.is_nonzero: any(self._cache.values()) or any(self._cache)
InexactAny(W, id) ==
    IF W[id].is_sparse
    THEN InexactIsNonzero(W[id])
    ELSE AnyOf(W[id].cache)

\* Stream_truncated.is_nonzero: the sparse stream reads the dict of its
\* operand, the dense one the slice self._cache[start:] of its own _cache
TruncatedIsNonzero(W, id) ==
    IF W[id].is_sparse
    THEN \E n \in DOMAIN W.s.cache :
            n + W[id].shift >= W[id].ao /\ W.s.cache[n] # 0
    ELSE AnyOf(SliceFrom(TruncatedCache(W, id),
                         W[id].ao - (W.s.ao + W[id].shift)))

\* x.is_nonzero()
StreamIsNonzero(W, id) ==
    IF W[id].kind = "truncated"
    THEN TruncatedIsNonzero(W, id)
    ELSE InexactAny(W, id)

\* Stream_zero.__ne__: Stream_zero() != x for a stream x that is not a
\* Stream_zero
ZeroNe(W, id) == StreamIsNonzero(W, id)

Truth(b) == IF b THEN 1 ELSE 0

\* x.is_nonzero() for x the stream or its wrapper
IsNonzeroCall(id) ==
    /\ World[id] # NoStream
    /\ last' = Call("is_nonzero", id, 0,
                    Ret(World, Truth(StreamIsNonzero(World, id))))
    /\ UNCHANGED <<f, a0, s, w, inp, ex>>

\* Stream_zero() != x
ZeroNotEqual(id) ==
    /\ World[id] # NoStream
    /\ last' = Call("ne", id, 0, Ret(World, Truth(ZeroNe(World, id))))
    /\ UNCHANGED <<f, a0, s, w, inp, ex>>

NextNonzero ==
    \/ \E n \in Idx : Index(n)
    \/ OrderOf
    \/ \E k \in TruncShifts, m \in MinValuations : Truncate(k, m)
    \/ \E n \in WrapIdx : IndexWrapper(n)
    \/ OrderOfWrapper
    \/ \E id \in {"s", "w"} : IsNonzeroCall(id)
    \/ \E id \in {"s", "w"} : ZeroNotEqual(id)

SpecNonzero == InitInexact /\ [][NextNonzero]_vars

\* C39: once is_nonzero() of an inexact stream, a Stream_truncated over it
\* included, gives True, it gives True after every later access to the
\* stream or to its source, and so does Stream_zero() != s.
C39_NonzeroStays ==
    [][\A id \in {"s", "w"} :
          (World[id] # NoStream /\ StreamIsNonzero(World, id)) =>
              /\ StreamIsNonzero([s |-> s', w |-> w'], id)
              /\ ZeroNe([s |-> s', w |-> w'], id)]_vars

\* the slice of a dense Stream_truncated starts inside its list
SliceInRange(W, id) ==
    \/ W[id].kind # "truncated"
    \/ W[id].is_sparse
    \/ W[id].ao - (W.s.ao + W[id].shift) >= 0

\* is_nonzero() stays True over every access made while the slice of a
\* dense Stream_truncated starts at a position that is not negative
NonzeroStaysInRange ==
    [][\A id \in {"s", "w"} :
          (/\ World[id] # NoStream
           /\ StreamIsNonzero(World, id)
           /\ SliceInRange(World, id)
           /\ SliceInRange([s |-> s', w |-> w'], id)) =>
              StreamIsNonzero([s |-> s', w |-> w'], id)]_vars

(* --------------------- _advance on a rejected factor -------------------- *)

\* the call of _advance that this step makes has raised the ValueError of
\* the validation
AdvanceRejected == last'.op = "advance" /\ last'.err = "ValueError"

\* the running result is the accumulation of the factors pulled before the
\* last one, and is the one of before the call when the call pulled no
\* other factor
OffenderLeftOut ==
    /\ \A n \in OpIdx :
          ex'.cur[n] = Accumulate(ex.kind, inp', ex'.op_iter - 1)[n]
    /\ (~ex.cur_none /\ ex'.op_iter = ex.op_iter + 1) => ex'.cur = ex.cur

\* the first factor of the iterator that is not a Stream_zero
RECURSIVE FirstFactor(_, _)
FirstFactor(fs, k) ==
    IF fs[k].kind = "zero" THEN FirstFactor(fs, k + 1) ELSE fs[k]

\* C40 as stated: when _advance raises the ValueError of the validation, the
\* rejected factor is not accumulated into _cur and _cur_order has the
\* value it had before the call.
C40_RejectedFactorAnyCall ==
    [][AdvanceRejected =>
          /\ OffenderLeftOut
          /\ ex'.cur_order = ex.cur_order]_vars

\* C40: when _advance raises the ValueError of the validation, the rejected
\* factor is not accumulated into _cur, and _cur_order has the value it had
\* before the call, or, in the call that found _cur None, the approximate
\* order of the first factor, which that call has stored.
C40_RejectedFactor ==
    [][AdvanceRejected =>
          /\ OffenderLeftOut
          /\ ex'.cur_order =
                IF ex.cur_none
                THEN FirstFactor(inp, 1).ao
                ELSE ex.cur_order]_vars

\* the second call of _advance has rejected the third factor of the
\* iterator
C40_Witness ==
    /\ last.op = "advance"
    /\ last.err = "ValueError"
    /\ last.n = 2
    /\ ex.op_iter = 3
    /\ ex.cur_order # MinusInfinity

====
